---------------------------- MODULE Spec2Model ----------------------------
(***************************************************************************)
(* Model of the waveform contract-testing engine: the pipeline selector    *)
(* service, the matcher / contract validation, the collector service and   *)
(* the test harness.                                                       *)
(*                                                                         *)
(* Strings are sequences of characters.  A Go nil interface value is Nil.  *)
(* A Go map is a function on a finite domain; ranging over a Go map        *)
(* visits the keys in an order the runtime picks, so every loop over a map *)
(* is a choice among all orders of its keys.                               *)
(***************************************************************************)
EXTENDS Integers, Sequences, FiniteSets, TLC

VARIABLES
    \* --- pipeline selector service (internal/contract/selector.go)
    pipelines,      \* PipelineSelectorService.pipelines: id -> PipelineInfo
    regOrder,       \* history: ids in order of first registration
    selCall,        \* history: the last call on the service and what it returned
    \* --- validation of one contract (matcher.Validate / Contract.Validate)
    vContract,      \* the contract being validated
    vInput,         \* the input bundle
    vOutput,        \* the output bundle
    vResult,        \* the ValidationResult returned, with the API that produced it
    \* --- test harness and collector service
    mode,           \* TestHarness.mode
    collector,      \* TestHarness.collectorService: "none", "service" or "faulty"
    config,         \* CollectorConfig: processors (a map) and the declared order
    contracts,      \* the argument of RunTests
    results,        \* TestResults.Results
    svc,            \* collector.Service: processors map, ctx, lifecycle
    calls,          \* history: calls made on the collector service, per contract
    \* --- a processor chain run on a bundle (Service.ProcessData)
    pBundle,        \* the bundle handed to the first call
    pProcs,         \* Service.processors: name -> configuration
    pOrders,        \* history: the order each call visited the processors in
    pOut,           \* history: the bundle after each call
    pErrs,          \* history: the error each call returned and what it logged
    \* --- validation of one rule (AdvancedMatcher.ValidateRule)
    rRule,          \* the ValidationRule
    rData,          \* the OpenTelemetryData: Traces and Time
    rOutcome,       \* whether ValidateRule was called, and the error it returned
    clock,          \* what time.Now() returns, in seconds
    \* --- loading of contract files (contract.Loader)
    fileSystem,     \* the files on disk: path -> what the file holds
    loader,         \* Loader: contracts (by FilePath) and errors
    loadCall        \* history: the argument of LoadFromPaths, once called

selVars == <<pipelines, regOrder, selCall>>
valVars == <<vContract, vInput, vOutput, vResult>>
harVars == <<mode, collector, config, contracts, results, svc, calls>>
procVars == <<pBundle, pProcs, pOrders, pOut, pErrs>>
vars == <<pipelines, regOrder, selCall, vContract, vInput, vOutput, vResult,
          mode, collector, config, contracts, results, svc, calls,
          pBundle, pProcs, pOrders, pOut, pErrs, rRule, rData, rOutcome, clock,
          fileSystem, loader, loadCall>>
ruleVars == <<rRule, rData, rOutcome, clock>>
loadVars == <<fileSystem, loader, loadCall>>

---------------------------------------------------------------------------
(* Bounds                                                                  *)

MaxPipelines == 2
MaxContracts == 3

---------------------------------------------------------------------------
(* Generic helpers                                                         *)

\* a Go nil interface value; no string holds this character
Nil == <<"<nil>">>

Range(s) == {s[i] : i \in 1..Len(s)}

\* all sequences that enumerate the finite set S once each: the orders in
\* which a Go `range` over a map with key set S can visit it
Orders(S) ==
    {s \in [1..Cardinality(S) -> S] : \A i, j \in 1..Cardinality(S) : s[i] = s[j] => i = j}

SeqsUpTo(S, n) == UNION {[1..k -> S] : k \in 0..n}

\* strings.HasPrefix
HasPrefix(s, p) ==
    /\ Len(p) <= Len(s)
    /\ SubSeq(s, 1, Len(p)) = p

\* strings.HasSuffix
HasSuffix(s, p) ==
    /\ Len(p) <= Len(s)
    /\ SubSeq(s, Len(s) - Len(p) + 1, Len(s)) = p

\* strings.Contains
Contains(s, p) ==
    \E i \in 0..(Len(s) - Len(p)) : SubSeq(s, i + 1, i + Len(p)) = p

\* the pattern ^[0-9]{3,4}$ and the characters it admits
DigitsPattern ==
    <<"^", "[", "0", "-", "9", "]", "{", "3", ",", "4", "}", "$">>
Digits == {"0", "1", "2", "3", "4", "5", "6", "7", "8", "9"}

\* regexp.Compile(pat) followed by MatchString(s), for the patterns
\* [^]literal[$] over the characters a, b and for ^[0-9]{3,4}$; a pattern
\* holding "(" does not compile.  Result: "invalid", "match" or "nomatch".
RegexpMatch(pat, s) ==
    IF \E i \in 1..Len(pat) : pat[i] = "(" THEN "invalid"
    ELSE IF pat = DigitsPattern THEN
        (IF Len(s) \in 3..4 /\ \A i \in 1..Len(s) : s[i] \in Digits
         THEN "match" ELSE "nomatch")
    ELSE LET atStart == Len(pat) > 0 /\ pat[1] = "^"
             p1      == IF atStart THEN Tail(pat) ELSE pat
             atEnd   == Len(p1) > 0 /\ p1[Len(p1)] = "$"
             lit     == IF atEnd THEN SubSeq(p1, 1, Len(p1) - 1) ELSE p1
             hit     == IF atStart /\ atEnd THEN s = lit
                        ELSE IF atStart THEN HasPrefix(s, lit)
                        ELSE IF atEnd THEN HasSuffix(s, lit)
                        ELSE Contains(s, lit)
         IN  IF hit THEN "match" ELSE "nomatch"

---------------------------------------------------------------------------
(* Pipeline selector service: internal/contract/selector.go                *)

PipelineIDs == {<<"p", "1">>, <<"p", "2">>, <<"p", "3">>}
TagKeys == {"environment"}

\* the PipelineInfo values RegisterPipeline is called with
PipelineInfos ==
    {[ID |-> id, Name |-> <<"a", "b">>, Description |-> <<>>, Type |-> ty,
      Tags |-> tg, Metadata |-> <<>>] :
        id \in PipelineIDs,
        ty \in {<<"a">>, <<"b">>},
        tg \in {<<>>, [k \in TagKeys |-> <<"a">>], [k \in TagKeys |-> <<"a", "b">>]}}

\* indexing a Go map[string]string: the zero value "" for a missing key
MapGet(m, k) == IF k \in DOMAIN m THEN m[k] ELSE <<>>

\* the selectors lookups are made with: field is the path split at ".",
\* value is a string or Nil
SelectorPool ==
    { [Field |-> <<"type">>, Operator |-> "equals", Value |-> <<"a">>],
      [Field |-> <<"type">>, Operator |-> "equals", Value |-> Nil],
      [Field |-> <<"tags", "environment">>, Operator |-> "equals", Value |-> <<"a">>],
      [Field |-> <<"tags", "environment">>, Operator |-> "starts_with", Value |-> <<"a">>],
      [Field |-> <<"tags", "environment">>, Operator |-> "ends_with", Value |-> <<"b">>],
      [Field |-> <<"name">>, Operator |-> "contains", Value |-> <<"b">>],
      [Field |-> <<"id">>, Operator |-> "matches", Value |-> <<"^", "p", "1", "$">>],
      [Field |-> <<"type">>, Operator |-> "matches", Value |-> <<"(">>],
      [Field |-> <<"tags">>, Operator |-> "equals", Value |-> <<>>],
      [Field |-> <<"owner">>, Operator |-> "equals", Value |-> <<"a">>],
      [Field |-> <<"type">>, Operator |-> "greater_than", Value |-> <<"a">>] }

\* the selector lists lookups are made with: the empty list, every single
\* selector, and pairs
SelectorLists ==
    {<<>>} \cup {<<x>> : x \in SelectorPool}
    \cup {<<x, y>> :
            x \in {z \in SelectorPool : z.Field = <<"type">> /\ z.Operator \in {"equals", "matches"}},
            y \in {z \in SelectorPool : z.Field = <<"tags", "environment">>}}

\* PipelineSelectorService.extractFieldValue
extractFieldValue(pipeline, fieldPath) ==
    IF fieldPath[1] = "id" THEN pipeline.ID
    ELSE IF fieldPath[1] = "name" THEN pipeline.Name
    ELSE IF fieldPath[1] = "description" THEN pipeline.Description
    ELSE IF fieldPath[1] = "type" THEN pipeline.Type
    ELSE IF fieldPath[1] = "tags" THEN
        (IF Len(fieldPath) > 1 THEN MapGet(pipeline.Tags, fieldPath[2]) ELSE Nil)
    ELSE IF fieldPath[1] = "metadata" THEN
        (IF Len(fieldPath) > 1 THEN MapGet(pipeline.Metadata, fieldPath[2]) ELSE Nil)
    ELSE Nil

\* PipelineSelectorService.compareValues
selCompareValues(a, b, operation) ==
    IF a = Nil \/ b = Nil THEN a = b
    ELSE IF operation = "equals" THEN a = b
    ELSE FALSE

\* PipelineSelectorService.matchesPattern
selMatchesPattern(value, pattern) ==
    IF value = Nil \/ pattern = Nil THEN FALSE
    ELSE RegexpMatch(pattern, value) = "match"

\* PipelineSelectorService.containsValue / startsWithValue / endsWithValue
containsValue(value, c) == IF value = Nil \/ c = Nil THEN FALSE ELSE Contains(value, c)
startsWithValue(value, c) == IF value = Nil \/ c = Nil THEN FALSE ELSE HasPrefix(value, c)
endsWithValue(value, c) == IF value = Nil \/ c = Nil THEN FALSE ELSE HasSuffix(value, c)

\* PipelineSelectorService.matchesSelector
matchesSelector(pipeline, selector) ==
    LET fieldValue == extractFieldValue(pipeline, selector.Field)
    IN  IF fieldValue = Nil THEN FALSE
        ELSE IF selector.Operator = "equals" THEN selCompareValues(fieldValue, selector.Value, "equals")
        ELSE IF selector.Operator = "matches" THEN selMatchesPattern(fieldValue, selector.Value)
        ELSE IF selector.Operator = "contains" THEN containsValue(fieldValue, selector.Value)
        ELSE IF selector.Operator = "starts_with" THEN startsWithValue(fieldValue, selector.Value)
        ELSE IF selector.Operator = "ends_with" THEN endsWithValue(fieldValue, selector.Value)
        ELSE FALSE

\* variant of matchesSelectors: one passing selector is enough
matchesSelectors_Any(pipeline, selectors) ==
    \/ Len(selectors) = 0
    \/ \E i \in 1..Len(selectors) : matchesSelector(pipeline, selectors[i])

\* PipelineSelectorService.matchesSelectors: the loop returns false at the
\* first selector that does not match
RECURSIVE matchesSelectorsFrom(_, _, _)
matchesSelectorsFrom(pipeline, selectors, i) ==
    IF i > Len(selectors) THEN TRUE
    ELSE IF ~matchesSelector(pipeline, selectors[i]) THEN FALSE
    ELSE matchesSelectorsFrom(pipeline, selectors, i + 1)

matchesSelectors(pipeline, selectors) == matchesSelectorsFrom(pipeline, selectors, 1)

\* the ids FindMatchingPipelines appends, as a set; the slice holds them in
\* the order the range over s.pipelines visited them
MatchingIDs(reg, selectors) ==
    {id \in DOMAIN reg : matchesSelectors(reg[id], selectors)}

\* PipelineSelectorService.FindMatchingPipelines: the possible returns (a nil
\* *PipelineSelectors takes the branch of an empty selector list)
FindMatchingPipelinesResults(reg, selectors) ==
    IF Len(selectors) = 0 THEN
        {[matches |-> <<>>, err |-> "no selectors provided"]}
    ELSE
        {[matches |-> ord, err |-> "none"] : ord \in Orders(MatchingIDs(reg, selectors))}

\* variant of FindBestOf: no matches returns no pipeline and no error
FindBestOf_Silent(found) ==
    IF found.err # "none" THEN [best |-> Nil, err |-> found.err]
    ELSE IF Len(found.matches) = 0 THEN [best |-> Nil, err |-> "none"]
    ELSE [best |-> found.matches[1], err |-> "none"]

\* PipelineSelectorService.FindBestMatchingPipeline, given what
\* FindMatchingPipelines returned
FindBestOf(found) ==
    IF found.err # "none" THEN [best |-> Nil, err |-> found.err]
    ELSE IF Len(found.matches) = 0 THEN [best |-> Nil, err |-> "no matching pipelines found"]
    ELSE IF Len(found.matches) = 1 THEN [best |-> found.matches[1], err |-> "none"]
    ELSE [best |-> found.matches[1], err |-> "none"]

NoCall == [op |-> "none", selectors |-> <<>>, matches |-> <<>>, best |-> Nil, err |-> "none"]

\* the history of a call of RegisterPipeline, GetPipelineByID or
\* ListPipelines: the id asked for, the pipeline handed in or returned and
\* the pipeline the registry held under the id before (pointers: <<>> is
\* nil and <<p>> points to p), and the list returned
RegistryCall(op, id, pipeline, replaced, list, err) ==
    [op |-> op, selectors |-> <<>>, matches |-> <<>>, best |-> Nil, err |-> err,
     id |-> id, pipeline |-> pipeline, replaced |-> replaced, list |-> list]

\* s.pipelines[id] as a pointer
Registered(reg, id) == IF id \in DOMAIN reg THEN <<reg[id]>> ELSE <<>>

\* variant of RegisterPipeline: an id that is registered keeps its pipeline
RegisterPipeline_KeepFirst(p) ==
    /\ p.ID \in DOMAIN pipelines \/ Cardinality(DOMAIN pipelines) < MaxPipelines
    /\ pipelines' = [id \in DOMAIN pipelines \cup {p.ID} |->
                        IF id \in DOMAIN pipelines THEN pipelines[id] ELSE p]
    /\ regOrder' = IF p.ID \in DOMAIN pipelines THEN regOrder ELSE Append(regOrder, p.ID)
    /\ selCall' = RegistryCall("register", p.ID, <<p>>, Registered(pipelines, p.ID), <<>>, "none")

\* PipelineSelectorService.RegisterPipeline
RegisterPipeline(p) ==
    /\ p.ID \in DOMAIN pipelines \/ Cardinality(DOMAIN pipelines) < MaxPipelines
    /\ pipelines' = [id \in DOMAIN pipelines \cup {p.ID} |->
                        IF id = p.ID THEN p ELSE pipelines[id]]
    /\ regOrder' = IF p.ID \in DOMAIN pipelines THEN regOrder ELSE Append(regOrder, p.ID)
    /\ selCall' = RegistryCall("register", p.ID, <<p>>, Registered(pipelines, p.ID), <<>>, "none")

\* PipelineSelectorService.GetPipelineByID: (pipeline, error)
GetPipelineByIDResult(reg, id) ==
    IF id \notin DOMAIN reg THEN [pipeline |-> <<>>, err |-> "pipeline not found"]
    ELSE [pipeline |-> <<reg[id]>>, err |-> "none"]

\* a call of GetPipelineByID
GetPipelineByID(id) ==
    /\ selCall' = RegistryCall("get", id, GetPipelineByIDResult(pipelines, id).pipeline,
                               <<>>, <<>>,
                               GetPipelineByIDResult(pipelines, id).err)
    /\ UNCHANGED <<pipelines, regOrder>>

\* a call of ListPipelines: the pipelines in the order the range over
\* s.pipelines visits them
ListPipelines ==
    /\ \E ord \in Orders(DOMAIN pipelines) :
          selCall' = RegistryCall("list", Nil, <<>>, <<>>,
                                  [i \in 1..Len(ord) |-> pipelines[ord[i]]], "none")
    /\ UNCHANGED <<pipelines, regOrder>>

\* a call of FindMatchingPipelines
FindMatchingPipelines(selectors) ==
    /\ \E r \in FindMatchingPipelinesResults(pipelines, selectors) :
          selCall' = [op |-> "all", selectors |-> selectors, matches |-> r.matches,
                      best |-> Nil, err |-> r.err]
    /\ UNCHANGED <<pipelines, regOrder>>

\* a call of FindBestMatchingPipeline
FindBestMatchingPipeline(selectors) ==
    /\ \E r \in FindMatchingPipelinesResults(pipelines, selectors) :
          selCall' = [op |-> "best", selectors |-> selectors, matches |-> r.matches,
                      best |-> FindBestOf(r).best, err |-> FindBestOf(r).err]
    /\ UNCHANGED <<pipelines, regOrder>>

---------------------------------------------------------------------------
(* Telemetry and contracts: internal/contract/types.go                     *)
(*                                                                         *)
(* Of the three signals the model keeps the traces.  A bundle is the       *)
(* sequence of its ResourceSpans; each has resource attributes and a       *)
(* sequence of ScopeSpans, each a sequence of spans.  Attribute maps are   *)
(* functions from keys to string values.                                   *)

\* a span
Span(name, attrs) == [Name |-> name, Attrs |-> attrs]

\* a ResourceSpans entry
ResourceSpans(resAttrs, scopes) == [Resource |-> resAttrs, Scopes |-> scopes]

\* ptrace.NewTraces()
NewTraces == <<>>

\* one attribute map with a single entry / two entries
Attr1(k, v) == [x \in {k} |-> v]
Attr2(k1, v1, k2, v2) == [x \in {k1, k2} |-> IF x = k1 THEN v1 ELSE v2]

\* pcommon.Map.Get: (value, exists)
AttrExists(attrs, k) == k \in DOMAIN attrs

\* order of the characters, for Go's string comparison
CharRank(c) == IF c = " " THEN 0 ELSE IF c = "a" THEN 1 ELSE IF c = "b" THEN 2 ELSE 3

\* Go's av < bv on strings
RECURSIVE StrLess(_, _)
StrLess(s, t) ==
    IF Len(t) = 0 THEN FALSE
    ELSE IF Len(s) = 0 THEN TRUE
    ELSE IF CharRank(Head(s)) < CharRank(Head(t)) THEN TRUE
    ELSE IF CharRank(Head(s)) > CharRank(Head(t)) THEN FALSE
    ELSE StrLess(Tail(s), Tail(t))

---------------------------------------------------------------------------
(* Matcher: package matcher (unnamed/part_000, from line 607)              *)

\* Matcher.extractSpanField, with parts the path after "span"
extractSpanField(parts, traces) ==
    IF Len(traces) = 0 THEN Nil
    ELSE IF Len(traces[1].Scopes) = 0 THEN Nil
    ELSE IF Len(traces[1].Scopes[1]) = 0 THEN Nil
    ELSE IF Len(parts) = 0 THEN Nil
    ELSE LET span == traces[1].Scopes[1][1]
         IN  IF parts[1] = "name" THEN span.Name
             ELSE IF parts[1] = "service" THEN
                 (IF AttrExists(traces[1].Resource, "service.name")
                  THEN traces[1].Resource["service.name"] ELSE <<>>)
             ELSE IF parts[1] = "attributes" THEN
                 (IF Len(parts) > 1 /\ AttrExists(span.Attrs, parts[2])
                  THEN span.Attrs[parts[2]] ELSE Nil)
             ELSE Nil

\* Matcher.extractFieldValue, with fieldPath the path split at "."
matcherExtractFieldValue(fieldPath, data) ==
    IF fieldPath[1] = "span" THEN extractSpanField(Tail(fieldPath), data)
    ELSE Nil

\* Matcher.compareValues on strings and nil
matcherCompareValues(a, b, operation) ==
    IF a = Nil \/ b = Nil THEN a = b
    ELSE IF operation = "equals" THEN a = b
    ELSE IF operation = "greater_than" THEN StrLess(b, a)
    ELSE IF operation = "less_than" THEN StrLess(a, b)
    ELSE FALSE

\* Matcher.matchesPattern
matcherMatchesPattern(value, pattern) ==
    IF value = Nil \/ pattern = Nil THEN FALSE
    ELSE RegexpMatch(pattern, value) = "match"

\* Matcher.evaluateFilter
evaluateFilter(filter, data) ==
    LET fieldValue == matcherExtractFieldValue(filter.Field, data)
    IN  IF filter.Operator = "equals" THEN matcherCompareValues(fieldValue, filter.Value, "equals")
        ELSE IF filter.Operator = "not_equals" THEN ~matcherCompareValues(fieldValue, filter.Value, "equals")
        ELSE IF filter.Operator = "matches" THEN matcherMatchesPattern(fieldValue, filter.Value)
        ELSE IF filter.Operator = "exists" THEN fieldValue # Nil
        ELSE IF filter.Operator = "not_exists" THEN fieldValue = Nil
        ELSE IF filter.Operator = "greater_than" THEN matcherCompareValues(fieldValue, filter.Value, "greater_than")
        ELSE IF filter.Operator = "less_than" THEN matcherCompareValues(fieldValue, filter.Value, "less_than")
        ELSE FALSE

\* Matcher.applyFilters
applyFilters(filters, data) ==
    \A i \in 1..Len(filters) : evaluateFilter(filters[i], data)

\* an error of the matcher: what failed, on which attribute key, in which
\* matcher (index from 0, as in the message); NoErr is a nil error
NoErr == [what |-> "none", key |-> "", matcher |-> 0]
Err(what, key) == [what |-> what, key |-> key, matcher |-> 0]
Panic == [what |-> "panic", key |-> "", matcher |-> 0]

\* the check Matcher.validateTrace makes of one entry of matcher.Attributes;
\* an entry is keyed by the name and by whether the key had the "!" prefix
attributeError(span, entry, expected) ==
    IF entry.neg THEN
        (IF Cardinality(DOMAIN span.Attrs) > 0 /\ AttrExists(span.Attrs, entry.name)
         THEN Err("attribute should not exist", entry.name) ELSE NoErr)
    ELSE IF AttrExists(span.Attrs, entry.name) THEN
        (IF span.Attrs[entry.name] # expected
         THEN Err("attribute mismatch", entry.name) ELSE NoErr)
    ELSE Err("attribute not found", entry.name)

\* Matcher.validateTrace: the errors it can return.  The loop over
\* matcher.Attributes ranges over a map and returns at the first failing
\* entry, so any failing entry can be the one reported.
validateTrace(matcher, traces) ==
    IF Len(traces[1].Scopes) = 0 THEN {Panic}
    ELSE IF Len(traces[1].Scopes[1]) = 0 THEN {Panic}
    ELSE LET span == traces[1].Scopes[1][1]
             res  == traces[1].Resource
             bad  == {attributeError(span, e, matcher.Attributes[e]) :
                         e \in DOMAIN matcher.Attributes} \ {NoErr}
         IN  IF matcher.SpanName # <<>> /\ span.Name # matcher.SpanName
                 THEN {Err("span name mismatch", "")}
             ELSE IF matcher.ServiceName # <<>> /\ AttrExists(res, "service.name")
                     /\ res["service.name"] # matcher.ServiceName
                 THEN {Err("service name mismatch", "")}
             ELSE IF matcher.ServiceName # <<>> /\ ~AttrExists(res, "service.name")
                 THEN {Err("service name not found", "")}
             ELSE IF bad # {} THEN bad
             ELSE {NoErr}

\* Matcher.validateTraces from matcher i on: the loop returns the first
\* error, wrapped with the index of the matcher
RECURSIVE validateTracesFrom(_, _, _)
validateTracesFrom(matchers, traces, i) ==
    IF i > Len(matchers) THEN {NoErr}
    ELSE LET here == validateTrace(matchers[i], traces)
         IN  {[e EXCEPT !.matcher = i - 1] : e \in here \ {NoErr}}
             \cup (IF NoErr \in here THEN validateTracesFrom(matchers, traces, i + 1) ELSE {})

\* Matcher.validateTraces
validateTraces(matchers, traces) ==
    IF Len(traces) = 0 THEN {Err("no traces found in output", "")}
    ELSE validateTracesFrom(matchers, traces, 1)

\* a ValidationResult; evaluated is history: the checks that were run;
\* panicked tells that the call did not return
ValidationResult(api, valid, errors, evaluated) ==
    [api |-> api, panicked |-> FALSE, Valid |-> valid, Errors |-> errors,
     Warnings |-> <<>>, evaluated |-> evaluated]
Panicked(api, evaluated) ==
    [api |-> api, panicked |-> TRUE, Valid |-> FALSE, Errors |-> <<>>,
     Warnings |-> <<>>, evaluated |-> evaluated]

\* Matcher.Validate: the results it can produce
MatcherValidate(contractDef, input, output) ==
    IF ~applyFilters(contractDef.Filters, input) THEN
        {ValidationResult("matcher", TRUE, <<>>, {"filters"})}
    ELSE IF Len(contractDef.Matchers) = 0 THEN
        {ValidationResult("matcher", TRUE, <<>>, {"filters"})}
    ELSE {IF e = Panic THEN Panicked("matcher", {"filters", "matchers"})
          ELSE IF e = NoErr THEN ValidationResult("matcher", TRUE, <<>>, {"filters", "matchers"})
          ELSE ValidationResult("matcher", FALSE,
                                <<[Type |-> "trace_validation", Message |-> e]>>,
                                {"filters", "matchers"}) :
             e \in validateTraces(contractDef.Matchers, output)}

---------------------------------------------------------------------------
(* Contract.Validate: internal/contract/types.go                           *)

\* Contract.validateContractStructure; Inputs and Matchers are the Traces
\* lists of the contract's inputs and matchers
validateContractStructure(c) ==
    IF c.Publisher = <<>> THEN Err("publisher is required", "")
    ELSE IF c.Version = <<>> THEN Err("version is required", "")
    ELSE IF c.Pipeline = <<>> /\ Len(c.PipelineSelectors) = 0
        THEN Err("either pipeline or pipeline_selectors must be specified", "")
    ELSE IF Len(c.Inputs) = 0 THEN Err("at least one input must be specified", "")
    ELSE IF Len(c.Matchers) = 0 THEN Err("at least one matcher must be specified", "")
    ELSE NoErr

\* Contract.evaluateFilter: the placeholder that lets every filter pass
contractEvaluateFilter(filter, data) == TRUE

\* Contract.applyFilters
contractApplyFilters(c, data) ==
    \A i \in 1..Len(c.Filters) : contractEvaluateFilter(c.Filters[i], data)

\* Contract.validateInputData
validateInputData(c, data) ==
    IF Len(c.Inputs) > 0 /\ Len(data) = 0
    THEN Err("contract expects trace input but no traces provided", "") ELSE NoErr

\* Contract.validateOutputData
validateOutputData(c, data) ==
    IF Len(c.Matchers) > 0 /\ Len(data) = 0
    THEN Err("contract expects trace output but no traces found", "") ELSE NoErr

\* Contract.validateTimeWindows
validateTimeWindows(c) == NoErr

\* the ValidationError Contract.Validate appends for the error of a check
ErrorsOf(type, e) == IF e = NoErr THEN <<>> ELSE <<[Type |-> type, Message |-> e]>>

\* variant of ContractValidate: a structural error is recorded and the
\* remaining checks are made all the same
ContractValidate_NoShortCircuit(c, input, output) ==
    LET errs == ErrorsOf("contract_structure", validateContractStructure(c))
                \o ErrorsOf("input_data", validateInputData(c, input))
                \o ErrorsOf("output_validation", validateOutputData(c, output))
                \o ErrorsOf("time_window", validateTimeWindows(c))
    IN  ValidationResult("contract", Len(errs) = 0, errs,
                         {"filters", "input_data", "output_data", "time_windows"})

\* Contract.Validate
ContractValidate(c, input, output) ==
    IF validateContractStructure(c) # NoErr THEN
        ValidationResult("contract", FALSE,
                         ErrorsOf("contract_structure", validateContractStructure(c)), {})
    ELSE IF ~contractApplyFilters(c, input) THEN
        ValidationResult("contract", TRUE, <<>>, {"filters"})
    ELSE LET errs == ErrorsOf("input_data", validateInputData(c, input))
                     \o ErrorsOf("output_validation", validateOutputData(c, output))
                     \o ErrorsOf("time_window", validateTimeWindows(c))
         IN  ValidationResult("contract", Len(errs) = 0, errs,
                              {"filters", "input_data", "output_data", "time_windows"})

---------------------------------------------------------------------------
(* The contracts and bundles the validators are called with                *)

EmptyAttrs == [x \in {} |-> <<>>]

Filter(field, operator, value) == [Field |-> field, Operator |-> operator, Value |-> value]

\* lists of Filter values: every operator of evaluateFilter, an operator it
\* does not know, and a field of another signal
FilterLists ==
    { <<>>,
      <<Filter(<<"span", "name">>, "equals", <<"a">>)>>,
      <<Filter(<<"span", "name">>, "not_equals", <<"a">>)>>,
      <<Filter(<<"span", "name">>, "matches", <<"^", "a">>)>>,
      <<Filter(<<"span", "name">>, "greater_than", <<"a">>)>>,
      <<Filter(<<"span", "name">>, "less_than", <<"b">>)>>,
      <<Filter(<<"span", "attributes", "k1">>, "exists", Nil)>>,
      <<Filter(<<"span", "attributes", "k2">>, "not_exists", Nil)>>,
      <<Filter(<<"span", "name">>, "contains", <<"a">>)>>,
      <<Filter(<<"metric", "name">>, "exists", Nil)>>,
      <<Filter(<<"span", "service">>, "equals", <<"a">>),
        Filter(<<"span", "attributes", "k1">>, "equals", <<"a">>)>> }

TraceMatcher(spanName, serviceName, attributes) ==
    [SpanName |-> spanName, ServiceName |-> serviceName, Attributes |-> attributes]

\* an entry key of TraceMatcher.Attributes: "k" is Want("k"), "!k" is Absent("k")
Want(k) == [neg |-> FALSE, name |-> k]
Absent(k) == [neg |-> TRUE, name |-> k]

\* lists of TraceMatcher values
TraceMatcherLists ==
    { <<>>,
      <<TraceMatcher(<<"a">>, <<>>, EmptyAttrs)>>,
      <<TraceMatcher(<<>>, <<"a">>, EmptyAttrs)>>,
      <<TraceMatcher(<<>>, <<>>, Attr2(Want("k1"), <<"a">>, Want("k2"), <<"b">>))>>,
      <<TraceMatcher(<<>>, <<>>, Attr1(Absent("k2"), <<>>))>>,
      <<TraceMatcher(<<"a">>, <<>>, EmptyAttrs),
        TraceMatcher(<<>>, <<>>, Attr1(Want("k2"), <<"b">>))>> }

TraceInput(spanName, serviceName, attributes) ==
    [SpanName |-> spanName, ServiceName |-> serviceName, Attributes |-> attributes]

\* a Contract
Contract(publisher, version, pipeline, selectors, inputs, filters, matchers) ==
    [Publisher |-> publisher, Version |-> version, Pipeline |-> pipeline,
     PipelineSelectors |-> selectors, Inputs |-> inputs, Filters |-> filters,
     Matchers |-> matchers]

\* the header fields of a contract: complete, and with one field missing
ContractHeads ==
    { [Publisher |-> <<"a">>, Version |-> <<"1">>, Pipeline |-> <<"p", "1">>, Inputs |-> 1],
      [Publisher |-> <<>>,    Version |-> <<"1">>, Pipeline |-> <<"p", "1">>, Inputs |-> 1],
      [Publisher |-> <<"a">>, Version |-> <<>>,    Pipeline |-> <<"p", "1">>, Inputs |-> 1],
      [Publisher |-> <<"a">>, Version |-> <<"1">>, Pipeline |-> <<>>,         Inputs |-> 1],
      [Publisher |-> <<"a">>, Version |-> <<"1">>, Pipeline |-> <<"p", "1">>, Inputs |-> 0] }

\* the contracts handed to the validators
ValContracts ==
    { Contract(h.Publisher, h.Version, h.Pipeline, <<>>,
               IF h.Inputs = 0 THEN <<>> ELSE <<TraceInput(<<"a">>, <<"a">>, Attr1("k1", <<"a">>))>>,
               f, m) :
        h \in ContractHeads, f \in FilterLists, m \in TraceMatcherLists }

\* the bundles handed to the validators: no traces, one span, and the
\* bundles with a resource without scopes and a scope without spans
BundlePool ==
    { NewTraces,
      <<ResourceSpans(Attr1("service.name", <<"a">>),
                      << <<Span(<<"a">>, Attr1("k1", <<"a">>))>> >>)>>,
      <<ResourceSpans(EmptyAttrs, << <<Span(<<"b">>, EmptyAttrs)>> >>)>>,
      <<ResourceSpans(Attr1("service.name", <<"b">>),
                      << <<Span(<<"a">>, Attr2("k1", <<"a">>, "k2", <<"b">>))>> >>)>>,
      <<ResourceSpans(EmptyAttrs, <<>>)>>,
      <<ResourceSpans(EmptyAttrs, << <<>> >>)>> }

\* no call of a validator yet
NoResult == ValidationResult("none", TRUE, <<>>, {})

\* a call of Matcher.Validate
MatcherValidateCall ==
    /\ vResult = NoResult
    /\ vResult' \in MatcherValidate(vContract, vInput, vOutput)
    /\ UNCHANGED <<vContract, vInput, vOutput>>

\* a call of Contract.Validate
ContractValidateCall ==
    /\ vResult = NoResult
    /\ vResult' = ContractValidate(vContract, vInput, vOutput)
    /\ UNCHANGED <<vContract, vInput, vOutput>>

---------------------------------------------------------------------------
(* Generator: package generator (internal/contract/selector_test.go, from  *)
(* line 596).  The trace and span ids it draws at random and the           *)
(* timestamps are not part of the model's bundles.                         *)

\* Generator.generateTraces: one ResourceSpans with one scope and one span
\* for every TraceInput
generateTraces(inputs) ==
    [i \in 1..Len(inputs) |->
        ResourceSpans(IF inputs[i].ServiceName # <<>>
                          THEN Attr1("service.name", inputs[i].ServiceName)
                          ELSE EmptyAttrs,
                      << <<Span(inputs[i].SpanName, inputs[i].Attributes)>> >>)]

\* Generator.GenerateFromContract
GenerateFromContract(contractDef) ==
    IF Len(contractDef.Inputs) > 0 THEN generateTraces(contractDef.Inputs) ELSE NewTraces

---------------------------------------------------------------------------
(* Processors: package collector (unnamed/part_001)                        *)

\* variant of PutStr: the value is appended to the value the key has
PutStr_Append(attrs, k, v) ==
    [x \in (DOMAIN attrs) \cup {k} |->
        IF x # k THEN attrs[x] ELSE IF k \in DOMAIN attrs THEN attrs[k] \o v ELSE v]

\* pcommon.Map.PutStr and pcommon.Map.Remove
PutStr(attrs, k, v) == [x \in (DOMAIN attrs) \cup {k} |-> IF x = k THEN v ELSE attrs[x]]
Remove(attrs, k) == [x \in (DOMAIN attrs) \ {k} |-> attrs[x]]

\* strings.Join
RECURSIVE Join(_, _)
Join(parts, sep) ==
    IF Len(parts) = 0 THEN <<>>
    ELSE IF Len(parts) = 1 THEN parts[1]
    ELSE parts[1] \o sep \o Join(Tail(parts), sep)

\* the configuration of a processor: the actions of an attributes
\* processor, the from_attributes and the separator of a transform
\* processor's span name rule; NilConfig is a processor without configuration
ProcessorConfig(actions, from, sep) ==
    [actions |-> actions, from_attributes |-> from, separator |-> sep]
NilConfig == ProcessorConfig(<<>>, <<>>, <<>>)

AttributeAction(key, value, action) == [Key |-> key, Value |-> value, Action |-> action]

\* EnhancedAttributesProcessor.parseConfig: the configured actions with a
\* key and an action, or the two default actions
attributesParseConfig(cfg) ==
    LET parsed == SelectSeq(cfg.actions, LAMBDA a : a.Key # "" /\ a.Action # "")
    IN  IF Len(parsed) = 0
        THEN <<AttributeAction("environment", <<"p", "r", "o", "d", "u", "c", "t", "i", "o", "n">>, "insert"),
               AttributeAction("service.name", <<"w", "a", "v", "e", "f", "o", "r", "m">>, "insert")>>
        ELSE parsed

\* variant of applyAttributeActions: insert also overwrites a present key
RECURSIVE applyAttributeActions_InsertOverwrites(_, _)
applyAttributeActions_InsertOverwrites(attributes, actions) ==
    IF Len(actions) = 0 THEN attributes
    ELSE LET action == Head(actions)
             next == IF action.Action = "insert" THEN
                         PutStr(attributes, action.Key, action.Value)
                     ELSE IF action.Action = "update" THEN
                         (IF AttrExists(attributes, action.Key)
                          THEN PutStr(attributes, action.Key, action.Value) ELSE attributes)
                     ELSE IF action.Action = "upsert" THEN
                         PutStr(attributes, action.Key, action.Value)
                     ELSE IF action.Action = "delete" THEN Remove(attributes, action.Key)
                     ELSE attributes
         IN  applyAttributeActions_InsertOverwrites(next, Tail(actions))

\* EnhancedAttributesProcessor.applyAttributeActions
RECURSIVE applyAttributeActions(_, _)
applyAttributeActions(attributes, actions) ==
    IF Len(actions) = 0 THEN attributes
    ELSE LET action == Head(actions)
             next == IF action.Action = "insert" THEN
                         (IF ~AttrExists(attributes, action.Key)
                          THEN PutStr(attributes, action.Key, action.Value) ELSE attributes)
                     ELSE IF action.Action = "update" THEN
                         (IF AttrExists(attributes, action.Key)
                          THEN PutStr(attributes, action.Key, action.Value) ELSE attributes)
                     ELSE IF action.Action = "upsert" THEN
                         PutStr(attributes, action.Key, action.Value)
                     ELSE IF action.Action = "delete" THEN Remove(attributes, action.Key)
                     ELSE attributes
         IN  applyAttributeActions(next, Tail(actions))

\* EnhancedTransformProcessor.parseConfig: the span name rule of the
\* configuration, or the default rule
transformParseConfig(cfg) ==
    IF Len(cfg.from_attributes) > 0
    THEN [FromAttributes |-> cfg.from_attributes, Separator |-> cfg.separator]
    ELSE [FromAttributes |-> <<"http.method", "http.route">>, Separator |-> <<" ">>]

\* variant of applySpanNameTransform: a listed attribute the span lacks
\* contributes an empty part
applySpanNameTransform_AllListed(span, transform) ==
    IF Len(transform.FromAttributes) = 0 THEN span
    ELSE LET parts == [i \in 1..Len(transform.FromAttributes) |->
                          IF AttrExists(span.Attrs, transform.FromAttributes[i])
                          THEN span.Attrs[transform.FromAttributes[i]] ELSE <<>>]
             separator == IF transform.Separator = <<>> THEN <<" ">> ELSE transform.Separator
         IN  [span EXCEPT !.Name = Join(parts, separator)]

\* EnhancedTransformProcessor.applySpanNameTransform
applySpanNameTransform(span, transform) ==
    IF Len(transform.FromAttributes) = 0 THEN span
    ELSE LET present == SelectSeq(transform.FromAttributes,
                                  LAMBDA attrName : AttrExists(span.Attrs, attrName))
             parts == [i \in 1..Len(present) |-> span.Attrs[present[i]]]
             separator == IF transform.Separator = <<>> THEN <<" ">> ELSE transform.Separator
         IN  IF Len(parts) > 0 THEN [span EXCEPT !.Name = Join(parts, separator)] ELSE span

\* the loops of ProcessTraces over every span of every scope of every
\* resource, with F the change made to a span
MapSpans(traces, F(_)) ==
    [i \in 1..Len(traces) |->
        ResourceSpans(traces[i].Resource,
            [j \in 1..Len(traces[i].Scopes) |->
                [k \in 1..Len(traces[i].Scopes[j]) |-> F(traces[i].Scopes[j][k])]])]

\* ProcessTraces of the processor Service.initializeProcessor creates for
\* a name: transform, attributes, and the processors that only log
ProcessTraces(name, cfg, traces) ==
    IF name = "transform" THEN
        MapSpans(traces, LAMBDA span : applySpanNameTransform(span, transformParseConfig(cfg)))
    ELSE IF name = "attributes" THEN
        MapSpans(traces, LAMBDA span :
            [span EXCEPT !.Attrs = applyAttributeActions(span.Attrs, attributesParseConfig(cfg))])
    ELSE traces

---------------------------------------------------------------------------
(* Service: package collector (unnamed/part_003)                           *)

\* the processors applied one after the other in the given order
RECURSIVE ApplyInOrder(_, _, _)
ApplyInOrder(order, processors, traces) ==
    IF Len(order) = 0 THEN traces
    ELSE ApplyInOrder(Tail(order), processors,
                      ProcessTraces(Head(order), processors[Head(order)], traces))

\* ProcessTraces returns an error: no processor of the package does; the
\* name "failing" stands for a TraceProcessor in s.processors that returns
\* one and leaves the traces as they are
ProcessTracesFails(name) == name = "failing"

\* Service.ProcessData on a bundle: the loop ranges over the map
\* s.processors, so every order of its keys is possible.  The bundle is
\* processed in place: the value returned and the caller's bundle are the
\* same traces.  The error of a processor is logged and the loop goes on;
\* the error returned is nil.
ServiceProcessData(processors, traces) ==
    IF Len(traces) > 0
    THEN {[applied |-> order, traces |-> ApplyInOrder(order, processors, traces),
           err |-> "none", logged |-> SelectSeq(order, ProcessTracesFails)] :
             order \in Orders(DOMAIN processors)}
    ELSE {[applied |-> <<>>, traces |-> traces, err |-> "none", logged |-> <<>>]}

\* NewService
NewService == [processors |-> {}, cancelled |-> FALSE]

\* Service.Start: initializeComponents fills s.processors from the
\* configuration; no component fails to initialize or to start
ServiceStart(s, cfg) == [s EXCEPT !.processors = DOMAIN cfg.Processors]

\* Service.Stop: cancels the context made by NewService
ServiceStop(s) == [s EXCEPT !.cancelled = TRUE]

---------------------------------------------------------------------------
(* TestHarness: package harness (internal/config/runner_test.go, from      *)
(* line 566)                                                               *)

\* a TestResult
TestResult(contractDef, valid, errors, inputData, outputData) ==
    [Contract |-> contractDef, Valid |-> valid, Errors |-> errors, Warnings |-> <<>>,
     InputData |-> inputData, OutputData |-> outputData]

\* what a runner hands back to runSingleTest: the output and the error, the
\* bundle inputData refers to when the runner returns, and as history the
\* processors in the order they were visited and the calls made on the
\* collector service
RunnerOutcome(output, err, inputData, applied, events, service) ==
    [output |-> output, err |-> err, inputData |-> inputData, applied |-> applied,
     events |-> events, svc |-> service]

\* TestHarness.applyTraceTransformations: the copy of the bundle, and the
\* processors of the configuration in the order the range over the map
\* h.config.Processors visits them; the apply functions return the copy
\* as it is
applyTraceTransformations(traces) ==
    {[applied |-> order, traces |-> traces] : order \in Orders(DOMAIN config.Processors)}

\* TestHarness.runPipelineTestSimulation and TestHarness.runProcessorTest,
\* which differ in their log messages
runPipelineTestSimulation(inputData) ==
    IF Len(inputData) > 0
    THEN {RunnerOutcome(t.traces, "none", inputData, t.applied, <<>>, svc) :
             t \in applyTraceTransformations(inputData)}
    ELSE {RunnerOutcome(NewTraces, "none", inputData, <<>>, <<>>, svc)}

\* TestHarness.runPipelineTestWithCollector with the collector.Service
runWithService(inputData) ==
    LET started == ServiceStart(svc, config)
    IN  {RunnerOutcome(t.traces, "none", t.traces, t.applied,
                       <<"Start", "ProcessData", "Stop">>, ServiceStop(started)) :
            t \in ServiceProcessData(config.Processors, inputData)}

\* variant of runWithOther: Stop is called at the end of the function and
\* not deferred, so it is not called when ProcessData fails
runWithOther_StopNotDeferred(inputData) ==
    { RunnerOutcome(NewTraces, "failed to start collector service", inputData,
                    <<>>, <<"Start">>, svc),
      RunnerOutcome(NewTraces, "failed to process data through collector", inputData,
                    <<>>, <<"Start", "ProcessData">>, svc),
      RunnerOutcome(inputData, "none", inputData, <<>>,
                    <<"Start", "ProcessData", "Stop">>, svc),
      RunnerOutcome(NewTraces, "none", inputData, <<>>,
                    <<"Start", "ProcessData", "Stop">>, svc) }

\* TestHarness.runPipelineTestWithCollector with another implementation of
\* CollectorService: Start fails, ProcessData fails, ProcessData returns
\* the data, or ProcessData returns a value that is no OpenTelemetryData
runWithOther(inputData) ==
    { RunnerOutcome(NewTraces, "failed to start collector service", inputData,
                    <<>>, <<"Start">>, svc),
      RunnerOutcome(NewTraces, "failed to process data through collector", inputData,
                    <<>>, <<"Start", "ProcessData", "Stop">>, svc),
      RunnerOutcome(inputData, "none", inputData, <<>>,
                    <<"Start", "ProcessData", "Stop">>, svc),
      RunnerOutcome(NewTraces, "none", inputData, <<>>,
                    <<"Start", "ProcessData", "Stop">>, svc) }

\* TestHarness.runPipelineTest
runPipelineTest(inputData) ==
    IF collector = "service" THEN runWithService(inputData)
    ELSE IF collector = "other" THEN runWithOther(inputData)
    ELSE runPipelineTestSimulation(inputData)

\* variant of failedResult: the failure is dropped and the result is valid
failedResult_Valid(contractDef, inputData, msg) ==
    TestResult(contractDef, TRUE, <<>>, inputData, NewTraces)

\* the result runSingleTest returns when the test could not be executed
failedResult(contractDef, inputData, msg) ==
    TestResult(contractDef, FALSE, <<Err(msg, "")>>, inputData, NewTraces)

\* the end of TestHarness.runSingleTest: the verdict of Matcher.Validate
\* copied into the result
validatedResults(contractDef, o) ==
    {[result |-> TestResult(contractDef, v.Valid,
                            IF v.Valid THEN <<>>
                            ELSE [i \in 1..Len(v.Errors) |-> v.Errors[i].Message],
                            o.inputData, o.output),
      panicked |-> v.panicked] :
        v \in MatcherValidate(contractDef, o.inputData, o.output)}

\* the history of one call of runSingleTest
RunLog(generated, o, failure, pipeline) ==
    [generated |-> generated, applied |-> o.applied, events |-> o.events,
     failure |-> failure, pipeline |-> pipeline]

\* TestHarness.runSingleTest: the results it can return, each with the
\* state of the collector service after the call and the history of the call
runSingleTestOutcomes(contractDef) ==
    LET inputData == GenerateFromContract(contractDef)
        none == RunnerOutcome(NewTraces, "none", inputData, <<>>, <<>>, svc)
    IN  IF mode \notin {"pipeline", "processor"} THEN
            {[result |-> failedResult(contractDef, inputData, "Unknown test mode"),
              svc |-> svc,
              log |-> RunLog(inputData, none, "mode", contractDef.Pipeline)]}
        ELSE UNION {
            IF o.err # "none" THEN
                {[result |-> failedResult(contractDef, o.inputData, o.err),
                  svc |-> o.svc,
                  log |-> RunLog(inputData, o, "execution", contractDef.Pipeline)]}
            ELSE
                {[result |-> r.result,
                  svc |-> o.svc,
                  log |-> RunLog(inputData, o, IF r.panicked THEN "panic" ELSE "none",
                                 contractDef.Pipeline)] :
                    r \in validatedResults(contractDef, o)} :
            o \in (IF mode = "pipeline" THEN runPipelineTest(inputData)
                   ELSE runPipelineTestSimulation(inputData)) }

\* variant of appendResult: the result is put in front
appendResult_Prepend(rs, result) == <<result>> \o rs

\* results = append(results, result) in the loop of RunTests
appendResult(rs, result) == Append(rs, result)

\* a call of runSingleTest has panicked, which ends RunTests
Crashed == \E i \in 1..Len(calls) : calls[i].failure = "panic"

\* RunTests is not between two contracts
Idle == Len(results) = Len(contracts)

\* TestHarness.SetCollectorService, with a new collector.Service or with
\* another implementation of the interface, before the tests are run
SetCollectorService(service) ==
    /\ contracts = <<>>
    /\ collector' = service
    /\ svc' = NewService
    /\ UNCHANGED <<mode, config, contracts, results, calls>>

\* TestHarness.RunTests is called: the results are empty.  The harness is
\* followed through one call with contracts, as the command line makes one.
RunTests(cs) ==
    /\ Idle /\ ~Crashed
    /\ contracts = <<>>
    /\ contracts' = cs
    /\ results' = <<>>
    /\ calls' = <<>>
    /\ UNCHANGED <<mode, config, collector, svc>>

\* one turn of the loop of RunTests: runSingleTest on the next contract and
\* its result appended
runSingleTest ==
    /\ ~Idle /\ ~Crashed
    /\ \E o \in runSingleTestOutcomes(contracts[Len(results) + 1]) :
          /\ results' = IF o.log.failure = "panic" THEN results
                        ELSE appendResult(results, o.result)
          /\ calls' = Append(calls, o.log)
          /\ svc' = o.svc
    /\ UNCHANGED <<mode, config, collector, contracts>>

\* the test modes: the two of the package and a string that is neither
TestModes == {"pipeline", "processor", "benchmark"}

\* a CollectorConfig: the processors map and, from the service section,
\* the processors of the traces pipeline in their declared order
CollectorConfig(processors, declared) == [Processors |-> processors, Service |-> declared]

\* the configurations the harness is made with
ConfigPool ==
    LET upsert == ProcessorConfig(<<AttributeAction("k1", <<"b">>, "upsert")>>, <<>>, <<>>)
        rename == ProcessorConfig(<<>>, <<"k1">>, <<>>)
        both == [n \in {"attributes", "transform"} |->
                    IF n = "attributes" THEN upsert ELSE rename]
    IN  { CollectorConfig(EmptyAttrs, <<>>),
          CollectorConfig(both, <<"attributes", "transform">>),
          CollectorConfig(both, <<"transform", "attributes">>),
          CollectorConfig([n \in {"attributes"} |-> NilConfig], <<"attributes">>),
          CollectorConfig([n \in {"filter", "batch"} |-> NilConfig], <<"batch", "filter">>) }

\* the contracts RunTests is called with
HarnessContracts ==
    { Contract(<<"a">>, <<"1">>, <<"p", "1">>,
               <<[Field |-> <<"type">>, Operator |-> "equals", Value |-> <<"a">>]>>,
               <<TraceInput(<<"a">>, <<"a">>, EmptyAttrs)>>,
               <<>>,
               <<TraceMatcher(<<"a">>, <<>>, EmptyAttrs)>>),
      Contract(<<"a">>, <<"1">>, <<"p", "2">>, <<>>,
               <<TraceInput(<<"a">>, <<>>, Attr1("k1", <<"a">>))>>,
               <<>>,
               <<TraceMatcher(<<>>, <<>>, Attr2(Want("k1"), <<"b">>, Want("k2"), <<"b">>))>>),
      Contract(<<"b">>, <<"1">>, <<>>,
               <<[Field |-> <<"type">>, Operator |-> "equals", Value |-> <<"b">>]>>,
               <<TraceInput(<<"b">>, <<"a">>, EmptyAttrs)>>,
               <<Filter(<<"span", "name">>, "equals", <<"a">>)>>,
               <<TraceMatcher(<<"a">>, <<>>, EmptyAttrs)>>) }

---------------------------------------------------------------------------
(* Specification of the selector service: registrations and lookups        *)

Unused == <<>>

SelectorInit ==
    /\ pipelines = <<>>
    /\ regOrder = <<>>
    /\ selCall = NoCall
    /\ vContract = Unused /\ vInput = Unused /\ vOutput = Unused /\ vResult = Unused
    /\ mode = Unused /\ collector = Unused /\ config = Unused /\ contracts = Unused
    /\ results = Unused /\ svc = Unused /\ calls = Unused
    /\ pBundle = Unused /\ pProcs = Unused /\ pOrders = Unused /\ pOut = Unused
    /\ pErrs = Unused
    /\ rRule = Unused /\ rData = Unused /\ rOutcome = Unused /\ clock = Unused
    /\ fileSystem = Unused /\ loader = Unused /\ loadCall = Unused

SelectorNext ==
    \/ \E p \in PipelineInfos : RegisterPipeline(p) /\ UNCHANGED <<valVars, harVars, procVars, ruleVars, loadVars>>
    \/ \E sel \in SelectorLists :
          FindMatchingPipelines(sel) /\ UNCHANGED <<valVars, harVars, procVars, ruleVars, loadVars>>
    \/ \E sel \in SelectorLists :
          FindBestMatchingPipeline(sel) /\ UNCHANGED <<valVars, harVars, procVars, ruleVars, loadVars>>
    \/ \E id \in PipelineIDs :
          GetPipelineByID(id) /\ UNCHANGED <<valVars, harVars, procVars, ruleVars, loadVars>>
    \/ ListPipelines /\ UNCHANGED <<valVars, harVars, procVars, ruleVars, loadVars>>

SpecSelector == SelectorInit /\ [][SelectorNext]_vars

\* the registered pipelines that pass every selector of the last lookup
PassAll ==
    {id \in DOMAIN pipelines :
        \A i \in 1..Len(selCall.selectors) : matchesSelector(pipelines[id], selCall.selectors[i])}

FirstRegistered(S) ==
    regOrder[CHOOSE i \in 1..Len(regOrder) :
                /\ regOrder[i] \in S
                /\ \A j \in 1..(i - 1) : regOrder[j] \notin S]

\* C9: when several registered pipelines match, the best-match lookup
\* returns the one that was registered first
C9_BestIsFirstRegistered ==
    (selCall.op = "best" /\ selCall.err = "none") =>
        selCall.best = FirstRegistered(PassAll)

\* C30: the registry holds one pipeline per id.  GetPipelineByID returns
\* the pipeline last registered under the id, and an error for an id never
\* registered: a registration sets what its own id returns and leaves what
\* every other id returns.  ListPipelines returns one entry for each
\* registered id, and FindMatchingPipelines no id twice.
C30_OnePipelinePerID ==
    /\ [](/\ \A id \in DOMAIN pipelines : pipelines[id].ID = id
          /\ selCall.op = "register" =>
                GetPipelineByIDResult(pipelines, selCall.id) =
                    [pipeline |-> selCall.pipeline, err |-> "none"]
          /\ selCall.op = "get" =>
                /\ selCall.err = "none" <=> selCall.id \in Range(regOrder)
                /\ selCall.err = "none" =>
                      Len(selCall.pipeline) = 1 /\ selCall.pipeline[1].ID = selCall.id
                /\ selCall.err # "none" => selCall.pipeline = <<>>
          /\ selCall.op = "list" =>
                /\ Len(selCall.list) = Len(regOrder)
                /\ {selCall.list[i].ID : i \in 1..Len(selCall.list)} = Range(regOrder)
          /\ selCall.op \in {"all", "best"} =>
                \A i, j \in 1..Len(selCall.matches) :
                    selCall.matches[i] = selCall.matches[j] => i = j)
    /\ [][\A id \in PipelineIDs :
              (selCall'.op = "register" /\ selCall'.id = id)
              \/ GetPipelineByIDResult(pipelines', id) = GetPipelineByIDResult(pipelines, id)]_vars

\* C30 witness: an id that was registered is registered again with another
\* pipeline, next to a second id
C30_Witness ==
    /\ selCall.op = "register"
    /\ Len(selCall.replaced) = 1
    /\ selCall.replaced # selCall.pipeline
    /\ Cardinality(DOMAIN pipelines) = 2
    /\ \E i \in 1..Len(regOrder) : regOrder[i] # selCall.id

---------------------------------------------------------------------------
(* Specification of the validators: one call of Matcher.Validate or of     *)
(* Contract.Validate on a contract, an input bundle and an output bundle   *)

ValidateInit ==
    /\ vContract \in ValContracts
    /\ vInput \in BundlePool
    /\ vOutput \in BundlePool
    /\ vResult = NoResult
    /\ pipelines = Unused /\ regOrder = Unused /\ selCall = Unused
    /\ mode = Unused /\ collector = Unused /\ config = Unused /\ contracts = Unused
    /\ results = Unused /\ svc = Unused /\ calls = Unused
    /\ pBundle = Unused /\ pProcs = Unused /\ pOrders = Unused /\ pOut = Unused
    /\ pErrs = Unused
    /\ rRule = Unused /\ rData = Unused /\ rOutcome = Unused /\ clock = Unused
    /\ fileSystem = Unused /\ loader = Unused /\ loadCall = Unused

ValidateNext ==
    \/ MatcherValidateCall /\ UNCHANGED <<selVars, harVars, procVars, ruleVars, loadVars>>
    \/ ContractValidateCall /\ UNCHANGED <<selVars, harVars, procVars, ruleVars, loadVars>>

SpecValidate == ValidateInit /\ [][ValidateNext]_vars

\* C1: when a filter of a well-formed contract does not hold on the input
\* bundle, the validator returns valid with no errors and has evaluated
\* neither the data checks nor the matchers
C1_FailingFilterSkipsValidation ==
    (/\ vResult.api \in {"matcher", "contract"}
     /\ validateContractStructure(vContract) = NoErr
     /\ ~applyFilters(vContract.Filters, vInput)) =>
        /\ ~vResult.panicked
        /\ vResult.Valid
        /\ vResult.Errors = <<>>
        /\ vResult.evaluated \subseteq {"filters"}

\* the trace matcher with index i (from 0) does not hold on the output
MatcherFails(i) ==
    validateTrace(vContract.Matchers[i + 1], vOutput) # {NoErr}

\* the output bundle has a first span, which the trace matchers are pinned to
HasFirstSpan(traces) ==
    /\ Len(traces) > 0
    /\ Len(traces[1].Scopes) > 0
    /\ Len(traces[1].Scopes[1]) > 0

\* C12: every failing matcher contributes an error of its own: when the
\* filters hold, the result of Matcher.Validate holds an error for each trace
\* matcher that does not hold on the output, also after an earlier failure
C12_EachFailingMatcherReported ==
    (/\ vResult.api = "matcher"
     /\ applyFilters(vContract.Filters, vInput)
     /\ HasFirstSpan(vOutput)) =>
        \A i \in 0..(Len(vContract.Matchers) - 1) :
            MatcherFails(i) =>
                \E j \in 1..Len(vResult.Errors) : vResult.Errors[j].Message.matcher = i

\* C26: no panic crosses the validation boundary: whatever the output
\* bundle, also one whose first resource has no scope or whose first scope
\* has no span, a call of a validator returns a validation result
C26_ValidationReturnsAResult ==
    vResult.api # "none" => ~vResult.panicked


\* the structural fields Contract.Validate requires, read off the contract
LacksStructure(c) ==
    \/ c.Publisher = <<>>
    \/ c.Version = <<>>
    \/ (c.Pipeline = <<>> /\ c.PipelineSelectors = <<>>)
    \/ c.Inputs = <<>>
    \/ c.Matchers = <<>>

\* C13: Contract.Validate on a contract that lacks a publisher, a version, a
\* pipeline binding, any input or any matcher returns valid=false with
\* exactly one error, of type contract_structure, and has made no filter,
\* input-data, output-data or time-window check
C13_StructureFailureShortCircuits ==
    (vResult.api = "contract" /\ LacksStructure(vContract)) =>
        /\ ~vResult.Valid
        /\ Len(vResult.Errors) = 1
        /\ vResult.Errors[1].Type = "contract_structure"
        /\ vResult.evaluated = {}

\* C13 witness: Contract.Validate has returned for a contract without a
\* version that has filters and matchers, on bundles without traces, which
\* the input and output checks would reject
C13_Witness ==
    /\ vResult.api = "contract"
    /\ vContract.Version = <<>>
    /\ vContract.Publisher # <<>>
    /\ Len(vContract.Filters) > 0
    /\ Len(vContract.Matchers) > 0
    /\ vInput = NewTraces
    /\ vOutput = NewTraces
    /\ Len(vResult.Errors) = 1

\* C14: a contract that its filters gate out yields valid=true, no errors,
\* and a warnings list holding exactly the entry "skipped: filter not
\* satisfied"
C14_FilterGatedResultIsMarkedSkipped ==
    (vResult.api = "matcher" /\ ~applyFilters(vContract.Filters, vInput)) =>
        /\ vResult.Valid
        /\ vResult.Errors = <<>>
        /\ vResult.Warnings = <<"skipped: filter not satisfied">>

---------------------------------------------------------------------------
(* Specification of the harness: a harness made by NewTestHarness, then    *)
(* calls of SetCollectorService and RunTests                               *)

Init ==
    /\ mode \in TestModes
    /\ config \in ConfigPool
    /\ collector = "none"
    /\ svc = NewService
    /\ contracts = <<>>
    /\ results = <<>>
    /\ calls = <<>>
    /\ pipelines = Unused /\ regOrder = Unused /\ selCall = Unused
    /\ vContract = Unused /\ vInput = Unused /\ vOutput = Unused /\ vResult = Unused
    /\ pBundle = Unused /\ pProcs = Unused /\ pOrders = Unused /\ pOut = Unused
    /\ pErrs = Unused
    /\ rRule = Unused /\ rData = Unused /\ rOutcome = Unused /\ clock = Unused
    /\ fileSystem = Unused /\ loader = Unused /\ loadCall = Unused

Next ==
    \/ \E service \in {"service", "other"} :
          SetCollectorService(service) /\ UNCHANGED <<selVars, valVars, procVars, ruleVars, loadVars>>
    \/ \E cs \in SeqsUpTo(HarnessContracts, MaxContracts) :
          RunTests(cs) /\ UNCHANGED <<selVars, valVars, procVars, ruleVars, loadVars>>
    \/ runSingleTest /\ UNCHANGED <<selVars, valVars, procVars, ruleVars, loadVars>>

Spec == Init /\ [][Next]_vars

\* C2: RunTests preserves the order of its input: the i-th result is the
\* result of the i-th contract
C2_ResultsInContractOrder ==
    /\ Len(results) <= Len(contracts)
    /\ \A i \in 1..Len(results) : results[i].Contract = contracts[i]

\* C2 witness: RunTests has returned the results of three contracts, the
\* first and the last of them different
C2_Witness ==
    /\ Idle
    /\ Len(results) = 3
    /\ contracts[1] # contracts[3]
    /\ results[3].Contract = contracts[3]

\* C3: a contract whose run fails (unknown mode, the collector service
\* fails to start or to process) gets an invalid result with an error
\* message; there is one result for each contract run so far, no run ends
\* RunTests, and the next contract can always be run
C3_FailureIsAResult ==
    /\ ~Crashed
    /\ Len(results) = Len(calls)
    /\ Len(results) <= Len(contracts)
    /\ \A i \in 1..Len(results) :
          calls[i].failure # "none" =>
              /\ ~results[i].Valid
              /\ Len(results[i].Errors) > 0
              /\ results[i].Contract = contracts[i]
    /\ ~Idle => ENABLED runSingleTest

\* C3 witness: RunTests has returned three results; the first run failed in
\* the collector service and the second contract was run and found valid
C3_Witness ==
    /\ Idle
    /\ Len(results) = 3
    /\ calls[1].failure = "execution"
    /\ ~results[1].Valid
    /\ calls[2].failure = "none"
    /\ results[2].Valid

\* C4: the input bundle recorded in a result is the bundle that was
\* generated for the contract
C4_InputDataIsGenerated ==
    \A i \in 1..Len(results) : results[i].InputData = calls[i].generated

\* C5: on every run that processes a bundle, the processors are visited in
\* the order declared in the configuration
C5_DeclaredOrder ==
    \A i \in 1..Len(results) :
        (/\ collector # "other"
         /\ calls[i].failure = "none"
         /\ Len(calls[i].generated) > 0) =>
            calls[i].applied = config.Service

\* C6: two runs of the same contract with the same configuration give the
\* same verdict, the same errors and the same output bundle
C6_SameContractSameResult ==
    collector # "other" =>
        \A i, j \in 1..Len(results) :
            contracts[i] = contracts[j] =>
                /\ results[i].Valid = results[j].Valid
                /\ results[i].Errors = results[j].Errors
                /\ results[i].OutputData = results[j].OutputData

\* the pipelines of a deployment: p1 of type b and p2 of type a
DeployedPipelines ==
    [id \in {<<"p", "1">>, <<"p", "2">>} |->
        [ID |-> id, Name |-> <<"a", "b">>, Description |-> <<>>,
         Type |-> IF id = <<"p", "1">> THEN <<"b">> ELSE <<"a">>,
         Tags |-> <<>>, Metadata |-> <<>>]]

\* C10: the test of a contract with both a pipeline id and selectors is run
\* for the pipeline the selectors resolve to
C10_SelectorsTakePrecedence ==
    \A i \in 1..Len(results) :
        (contracts[i].Pipeline # <<>> /\ Len(contracts[i].PipelineSelectors) > 0) =>
            \E found \in FindMatchingPipelinesResults(DeployedPipelines,
                                                     contracts[i].PipelineSelectors) :
                calls[i].pipeline = FindBestOf(found).best

\* the run of the i-th contract ended with this error of the runner
RunFailedWith(i, msg) ==
    /\ calls[i].failure = "execution"
    /\ results[i].Errors = <<Err(msg, "")>>

\* C27: a contract run through an attached collector service calls Start
\* first; when Start fails nothing else is called; when Start succeeds
\* ProcessData is called next and Stop once after it, also when ProcessData
\* returns an error
C27_StartProcessStop ==
    \A i \in 1..Len(results) :
        LET events == calls[i].events
        IN  /\ (collector # "none" /\ mode = "pipeline") <=> events # <<>>
            /\ events # <<>> =>
                  IF RunFailedWith(i, "failed to start collector service")
                  THEN events = <<"Start">>
                  ELSE events = <<"Start", "ProcessData", "Stop">>

\* C27 witness: ProcessData of the attached service returned an error, and
\* Stop was called after it
C27_Witness ==
    /\ Len(results) > 0
    /\ RunFailedWith(1, "failed to process data through collector")
    /\ calls[1].events = <<"Start", "ProcessData", "Stop">>

\* C29: whenever a contract is run through the collector.Service, the
\* context the service has after Start, which it hands to its components on
\* start and on processing, is not cancelled; so for the first contract and
\* for every later one, started after the Stop of the one before
C29_RunningContextIsLive ==
    [][(/\ collector = "service"
        /\ Len(calls') = Len(calls) + 1
        /\ calls'[Len(calls')].events # <<>>) =>
           ~ServiceStart(svc, config).cancelled]_vars

---------------------------------------------------------------------------
(* Specification of a processor chain: a collector.Service with the        *)
(* attributes and the transform processor, and calls of ProcessData on a   *)
(* bundle and then on the bundle the call before returned                  *)

MaxActions == 2
MaxRuns == 2

\* the attribute keys of the bundles and of the processors
AttrKeys == {"k1", "k2", "http.method", "http.route", "environment", "service.name"}

\* the values of the transform test: http.method and http.route
GET == <<"G", "E", "T">>
ApiUsers == <<"/", "a", "p", "i", "/", "u", "s", "e", "r", "s">>

\* the AttributeAction values of the configurations
ActionPool ==
    {AttributeAction(k, v, a) :
        k \in {"k1", "k2"}, v \in {<<"a">>, <<"b">>}, a \in {"insert", "update", "upsert"}}
    \cup {AttributeAction(k, <<>>, "delete") : k \in {"k1", "k2"}}

\* the configurations of the transform processor: none, and span name rules
\* with and without a separator
TransformConfigs ==
    { NilConfig,
      ProcessorConfig(<<>>, <<"k1">>, <<>>),
      ProcessorConfig(<<>>, <<"k1", "k2">>, <<"-">>),
      ProcessorConfig(<<>>, <<"k2", "k1">>, <<>>) }

\* the processors maps: the attributes processor, the transform processor,
\* both, and a processor that fails, alone and next to the attributes
\* processor
ProcessorMaps ==
    {[n \in {"attributes"} |-> ProcessorConfig(acts, <<>>, <<>>)] :
        acts \in SeqsUpTo(ActionPool, MaxActions)}
    \cup {[n \in {"transform"} |-> t] : t \in TransformConfigs}
    \cup {[n \in {"attributes", "transform"} |->
              IF n = "attributes" THEN ProcessorConfig(acts, <<>>, <<>>) ELSE t] :
            acts \in SeqsUpTo(ActionPool, 1), t \in TransformConfigs}
    \cup {[n \in {"failing"} |-> NilConfig]}
    \cup {[n \in {"attributes", "failing"} |->
              IF n = "attributes" THEN ProcessorConfig(acts, <<>>, <<>>) ELSE NilConfig] :
            acts \in SeqsUpTo(ActionPool, 1)}

\* the bundles: no traces, and one resource with one scope of one or two spans
ProcessorBundles ==
    {NewTraces}
    \cup {<<ResourceSpans(EmptyAttrs, <<spans>>)>> :
            spans \in { <<Span(<<"a">>, EmptyAttrs)>>,
                        <<Span(<<"a">>, Attr1("k1", <<"a">>))>>,
                        <<Span(<<"a">>, Attr2("k1", <<"a">>, "k2", <<"b">>))>>,
                        <<Span(<<"o">>, Attr2("http.method", GET, "http.route", ApiUsers))>>,
                        <<Span(<<"a">>, Attr1("k2", <<"b">>)), Span(<<"b">>, EmptyAttrs)>> }}

\* a call of Service.ProcessData: on the bundle, and then on what the call
\* before returned
ProcessData ==
    /\ Len(pOut) < MaxRuns
    /\ \E r \in ServiceProcessData(pProcs, IF pOut = <<>> THEN pBundle ELSE pOut[Len(pOut)]) :
          /\ pOrders' = Append(pOrders, r.applied)
          /\ pOut' = Append(pOut, r.traces)
          /\ pErrs' = Append(pErrs, [err |-> r.err, logged |-> r.logged])
    /\ UNCHANGED <<pBundle, pProcs>>

ProcessInit ==
    /\ pBundle \in ProcessorBundles
    /\ pProcs \in ProcessorMaps
    /\ pOrders = <<>>
    /\ pOut = <<>>
    /\ pErrs = <<>>
    /\ pipelines = Unused /\ regOrder = Unused /\ selCall = Unused
    /\ vContract = Unused /\ vInput = Unused /\ vOutput = Unused /\ vResult = Unused
    /\ mode = Unused /\ collector = Unused /\ config = Unused /\ contracts = Unused
    /\ results = Unused /\ svc = Unused /\ calls = Unused
    /\ rRule = Unused /\ rData = Unused /\ rOutcome = Unused /\ clock = Unused
    /\ fileSystem = Unused /\ loader = Unused /\ loadCall = Unused

ProcessNext == ProcessData /\ UNCHANGED <<selVars, valVars, harVars, ruleVars, loadVars>>

SpecProcess == ProcessInit /\ [][ProcessNext]_vars

\* the spans of a bundle of ProcessorBundles
SpansOf(traces) == IF Len(traces) = 0 THEN <<>> ELSE traces[1].Scopes[1]

\* the value of a key in an attribute map, Nil when the key is absent
ValueOf(attrs, key) == IF AttrExists(attrs, key) THEN attrs[key] ELSE Nil

\* what one key holds after the actions, from what it held before, by the
\* rules of the four actions: insert sets the key only if it is absent,
\* update only if it is present, upsert sets it, delete removes it, and an
\* action on another key leaves it alone
RECURSIVE KeyAfter(_, _, _)
KeyAfter(v, actions, key) ==
    IF Len(actions) = 0 THEN v
    ELSE LET a == Head(actions)
             w == IF a.Key # key THEN v
                  ELSE IF a.Action = "insert" THEN (IF v = Nil THEN a.Value ELSE v)
                  ELSE IF a.Action = "update" THEN (IF v = Nil THEN v ELSE a.Value)
                  ELSE IF a.Action = "upsert" THEN a.Value
                  ELSE Nil
         IN  KeyAfter(w, Tail(actions), key)

\* C15: after a call with an attributes processor, every key of every span
\* holds what the configured actions, taken in list order, make of what it
\* held: insert sets only an absent key, update only a present one, upsert
\* sets unconditionally, delete removes, and a key no action names keeps its
\* value
C15_ActionsApplyInListOrder ==
    (/\ Len(pOut) > 0
     /\ "attributes" \in DOMAIN pProcs
     /\ Len(pProcs["attributes"].actions) > 0) =>
        /\ Len(SpansOf(pOut[1])) = Len(SpansOf(pBundle))
        /\ \A n \in 1..Len(SpansOf(pBundle)) :
              /\ DOMAIN SpansOf(pOut[1])[n].Attrs \subseteq AttrKeys
              /\ \A key \in AttrKeys :
                    ValueOf(SpansOf(pOut[1])[n].Attrs, key) =
                        KeyAfter(ValueOf(SpansOf(pBundle)[n].Attrs, key),
                                 pProcs["attributes"].actions, key)

\* C15 witness: the actions [delete k1, insert k1=b] have turned a span with
\* k1=a and k2=b into one with k1=b and k2=b: the insert found the key
\* absent because the delete ran first, and k2 kept its value
C15_Witness ==
    /\ Len(pOut) > 0
    /\ Len(pBundle) > 0
    /\ DOMAIN pProcs = {"attributes"}
    /\ pProcs["attributes"].actions =
           <<AttributeAction("k1", <<>>, "delete"), AttributeAction("k1", <<"b">>, "insert")>>
    /\ SpansOf(pBundle)[1].Attrs = Attr2("k1", <<"a">>, "k2", <<"b">>)
    /\ SpansOf(pOut[1])[1].Attrs = Attr2("k1", <<"b">>, "k2", <<"b">>)

\* the actions of the attributes processor of the chain, none without one
ChainActions ==
    IF "attributes" \in DOMAIN pProcs THEN attributesParseConfig(pProcs["attributes"])
    ELSE <<>>

\* an upsert, insert or name-transform action of the chain finds on a span
\* of the bundle what it acts on: an upsert always, an insert an absent key,
\* the name transform a listed attribute
FiresOn(traces) ==
    \E n \in 1..Len(SpansOf(traces)) :
        LET span == SpansOf(traces)[n]
        IN  \/ \E i \in 1..Len(ChainActions) :
                  \/ ChainActions[i].Action = "upsert"
                  \/ /\ ChainActions[i].Action = "insert"
                     /\ ~AttrExists(span.Attrs, ChainActions[i].Key)
            \/ /\ "transform" \in DOMAIN pProcs
               /\ \E i \in 1..Len(transformParseConfig(pProcs["transform"]).FromAttributes) :
                     AttrExists(span.Attrs,
                                transformParseConfig(pProcs["transform"]).FromAttributes[i])

\* an upsert, insert or name-transform action of the chain, applied to a
\* span of the bundle, gives another span
ChangesOn(traces) ==
    \E n \in 1..Len(SpansOf(traces)) :
        LET span == SpansOf(traces)[n]
        IN  \/ \E i \in 1..Len(ChainActions) :
                  /\ ChainActions[i].Action \in {"upsert", "insert"}
                  /\ applyAttributeActions(span.Attrs, <<ChainActions[i]>>) # span.Attrs
            \/ /\ "transform" \in DOMAIN pProcs
               /\ applySpanNameTransform(span, transformParseConfig(pProcs["transform"])) # span

\* the chain was applied twice, to a bundle and to its own output, visiting
\* the processors in the same order
AppliedTwice ==
    /\ Len(pBundle) > 0
    /\ Len(pOut) >= 2
    /\ pOrders[2] = pOrders[1]

\* C16 (as claimed): re-applying the chain to its own output changes nothing
\* if and only if no upsert, insert or name-transform action of the chain
\* would fire on that output, whether firing is finding what the action acts
\* on or changing the output
C16_IdempotentIffNothingFires ==
    AppliedTwice =>
        \/ (pOut[2] = pOut[1]) <=> ~FiresOn(pOut[1])
        \/ (pOut[2] = pOut[1]) <=> ~ChangesOn(pOut[1])

\* no update action of the chain comes ahead of an insert action on the
\* same key
NoUpdateAheadOfInsert ==
    \A i, j \in 1..Len(ChainActions) :
        (i < j /\ ChainActions[i].Key = ChainActions[j].Key) =>
            ~(ChainActions[i].Action = "update" /\ ChainActions[j].Action = "insert")

\* the transform processor, if the chain has one, was visited last
TransformRunsLast ==
    "transform" \in DOMAIN pProcs => pOrders[1][Len(pOrders[1])] = "transform"

\* C16 (amended): re-applying the chain, in the same order, to its own
\* output changes nothing whenever no update action comes ahead of an insert
\* action on the same key and the name transform, if any, runs after the
\* attributes actions
C16_ReapplyingChangesNothing ==
    (/\ Len(pBundle) > 0
     /\ Len(pOut) >= 2
     /\ NoUpdateAheadOfInsert
     /\ TransformRunsLast) =>
        \A r \in 2..Len(pOut) :
            (\A q \in 2..r : pOrders[q] = pOrders[1]) => pOut[r] = pOut[1]

\* C16 witness: a chain of an upsert and a name transform after it was
\* applied twice in that order; the first application changed the bundle,
\* the upsert and the transform fire on the output, and the second
\* application changed nothing
C16_Witness ==
    /\ AppliedTwice
    /\ pOrders[1] = <<"attributes", "transform">>
    /\ \E i \in 1..Len(ChainActions) : ChainActions[i].Action = "upsert"
    /\ pOut[1] # pBundle
    /\ FiresOn(pOut[1])
    /\ pOut[2] = pOut[1]

\* the values of the listed attributes a span has, in list order, joined
\* with the separator from left to right; acc is the name so far, Nil
\* before the first value
RECURSIVE JoinPresent(_, _, _, _)
JoinPresent(attrs, listed, sep, acc) ==
    IF Len(listed) = 0 THEN acc
    ELSE JoinPresent(attrs, Tail(listed), sep,
                     IF ~AttrExists(attrs, Head(listed)) THEN acc
                     ELSE IF acc = Nil THEN attrs[Head(listed)]
                     ELSE acc \o sep \o attrs[Head(listed)])

\* the name a span is to have after the span-name rule: the join, or the
\* old name when the span has none of the listed attributes
ExpectedName(oldName, attrs, rule) ==
    LET sep == IF rule.Separator = <<>> THEN <<" ">> ELSE rule.Separator
        joined == JoinPresent(attrs, rule.FromAttributes, sep, Nil)
    IN  IF joined = Nil THEN oldName ELSE joined

\* the attributes the transform processor found on span n in the first
\* call: those of the bundle when it was visited first, else those the
\* attributes processor left
SeenByTransform(n) ==
    IF pOrders[1][1] = "transform" THEN SpansOf(pBundle)[n].Attrs
    ELSE SpansOf(pOut[1])[n].Attrs

---------------------------------------------------------------------------
(* AdvancedMatcher: package matcher (unnamed/part_000, to line 605)        *)
(*                                                                         *)
(* A field path and an attribute key are the sequences of their parts      *)
(* between the dots: strings.Split(path, ".") of a path is the path        *)
(* itself, and the key "payment.method" is <<"payment", "method">>.  A nil  *)
(* pointer is the empty sequence and a pointer to x is <<x>>.  The spans   *)
(* carry no timestamps and no status, and the bundles no metrics or logs.  *)
(*                                                                         *)
(* A value (interface{}) is nil, a string, or one of Int64(n),             *)
(* Float64(w, e) and Bool(b).  Float64(w, e) is w + e * 1e-10, with e of at *)
(* most two digits, so that differences below and above the tolerance of   *)
(* compareNumeric can be told apart; a time is a number of seconds and 0   *)
(* is the zero time.                                                       *)

Int64(n) == <<"int", n>>
Float64(w, e) == <<"float", w, e>>
Bool(b) == <<"bool", b>>

\* the dynamic type of a value (the cases of a type switch)
TypeOf(v) ==
    IF v = Nil THEN "nil"
    ELSE IF Len(v) = 2 /\ v[1] = "int" THEN "int"
    ELSE IF Len(v) = 3 /\ v[1] = "float" THEN "float"
    ELSE IF Len(v) = 2 /\ v[1] = "bool" THEN "bool"
    ELSE "string"

\* the decimal digits of a natural number below 100
Decimal(n) ==
    LET digit(d) == IF d = 0 THEN "0" ELSE IF d = 1 THEN "1" ELSE IF d = 2 THEN "2"
                    ELSE IF d = 3 THEN "3" ELSE IF d = 4 THEN "4" ELSE IF d = 5 THEN "5"
                    ELSE IF d = 6 THEN "6" ELSE IF d = 7 THEN "7" ELSE IF d = 8 THEN "8"
                    ELSE "9"
    IN  IF n < 10 THEN <<digit(n)>> ELSE <<digit(n \div 10), digit(n % 10)>>

\* fmt.Sprintf("%v", v): a float prints its shortest decimal form, so
\* 1 + 5e-10 prints 1.0000000005 and 1 + 20e-10 prints 1.000000002
Sprint(v) ==
    LET zeros(k) == [i \in 1..k |-> "0"]
        frac(e) == IF e < 10 THEN zeros(9) \o Decimal(e)
                   ELSE IF e % 10 = 0 THEN zeros(8) \o Decimal(e \div 10)
                   ELSE zeros(8) \o Decimal(e)
    IN  IF TypeOf(v) = "nil" THEN <<"<", "n", "i", "l", ">">>
        ELSE IF TypeOf(v) = "int" THEN Decimal(v[2])
        ELSE IF TypeOf(v) = "float" THEN
            (IF v[3] = 0 THEN Decimal(v[2]) ELSE Decimal(v[2]) \o <<".">> \o frac(v[3]))
        ELSE IF TypeOf(v) = "bool" THEN
            (IF v[2] THEN <<"t", "r", "u", "e">> ELSE <<"f", "a", "l", "s", "e">>)
        ELSE v

\* the tolerance of compareNumeric, 1e-9, in units of 1e-10
Tolerance == 10

\* a float64 as the pair of its whole part and its part in units of 1e-10
Num(w, e) == [ok |-> TRUE, w |-> w, e |-> e]

\* strconv.ParseFloat(s, 64) of a string: one or two decimal digits give
\* their number; the other strings of the model do not parse
ParseFloat(s) ==
    LET val(c) == CHOOSE d \in 0..9 : Decimal(d) = <<c>>
    IN  IF Len(s) \in 1..2 /\ \A i \in 1..Len(s) : s[i] \in Digits
        THEN Num(IF Len(s) = 1 THEN val(s[1]) ELSE 10 * val(s[1]) + val(s[2]), 0)
        ELSE [ok |-> FALSE, w |-> 0, e |-> 0]

\* AdvancedMatcher.toNumeric: (float64, error); the number is 0 on error
toNumeric(value) ==
    IF TypeOf(value) = "int" THEN Num(value[2], 0)
    ELSE IF TypeOf(value) = "float" THEN Num(value[2], value[3])
    ELSE IF TypeOf(value) = "string" THEN ParseFloat(value)
    ELSE [ok |-> FALSE, w |-> 0, e |-> 0]

\* x < y of two float64
NumLess(x, y) == x.w < y.w \/ (x.w = y.w /\ x.e < y.e)

\* AdvancedMatcher.compareNumeric
compareNumeric(a, b, operation) ==
    IF operation = "equals"
        THEN a.w = b.w /\ a.e - b.e < Tolerance /\ b.e - a.e < Tolerance
    ELSE IF operation = "greater_than" THEN NumLess(b, a)
    ELSE IF operation = "less_than" THEN NumLess(a, b)
    ELSE IF operation = "greater_or_equal" THEN ~NumLess(a, b)
    ELSE IF operation = "less_or_equal" THEN ~NumLess(b, a)
    ELSE FALSE

\* AdvancedMatcher.extractSpanField, with parts the path after "span"
advExtractSpanField(parts, traces) ==
    IF Len(traces) = 0 \/ Len(parts) = 0 THEN Nil
    ELSE IF Len(traces[1].Scopes) = 0 THEN Nil
    ELSE IF Len(traces[1].Scopes[1]) = 0 THEN Nil
    ELSE LET span == traces[1].Scopes[1][1]
         IN  IF parts[1] = "name" THEN span.Name
             ELSE IF parts[1] = "service" THEN
                 (IF AttrExists(traces[1].Resource, <<"service", "name">>)
                  THEN traces[1].Resource[<<"service", "name">>] ELSE Nil)
             ELSE IF parts[1] = "attributes" THEN
                 (IF Len(parts) > 1 /\ AttrExists(span.Attrs, <<parts[2]>>)
                  THEN span.Attrs[<<parts[2]>>] ELSE Nil)
             ELSE Nil

\* AdvancedMatcher.extractFieldValue
advExtractFieldValue(fieldPath, data) ==
    IF Len(fieldPath) = 0 THEN Nil
    ELSE IF fieldPath[1] = "span" THEN advExtractSpanField(Tail(fieldPath), data.Traces)
    ELSE Nil

\* AdvancedMatcher.compareValues: a string is compared with a string only;
\* an int or a float is compared as a number with whatever toNumeric makes
\* of the other operand, 0 when it cannot convert it; a bool is equal to
\* nothing
advCompareValues(a, b, operation) ==
    IF a = Nil \/ b = Nil THEN TypeOf(a) = TypeOf(b)
    ELSE IF TypeOf(a) = "string" THEN
        (IF TypeOf(b) # "string" THEN FALSE
         ELSE IF operation = "equals" THEN a = b
         ELSE IF operation = "greater_than" THEN StrLess(b, a)
         ELSE IF operation = "less_than" THEN StrLess(a, b)
         ELSE IF operation = "greater_or_equal" THEN ~StrLess(a, b)
         ELSE IF operation = "less_or_equal" THEN ~StrLess(b, a)
         ELSE FALSE)
    ELSE IF TypeOf(a) \in {"int", "float"}
        THEN compareNumeric(toNumeric(a), toNumeric(b), operation)
    ELSE FALSE

\* AdvancedMatcher.matchesPattern
advMatchesPattern(value, pattern) ==
    IF value = Nil \/ pattern = <<>> THEN FALSE
    ELSE RegexpMatch(pattern, Sprint(value)) = "match"

\* AdvancedMatcher.stringContains / stringStartsWith / stringEndsWith
stringContains(value, substring) == Contains(Sprint(value), Sprint(substring))
stringStartsWith(value, prefix) == HasPrefix(Sprint(value), Sprint(prefix))
stringEndsWith(value, suffix) == HasSuffix(Sprint(value), Sprint(suffix))

\* a ValueRange; Min and Max are values, MinInclusive and MaxInclusive
\* pointers to a bool
ValueRange(min, max, inclusive, minInclusive, maxInclusive) ==
    [Min |-> min, Max |-> max, Inclusive |-> inclusive,
     MinInclusive |-> minInclusive, MaxInclusive |-> maxInclusive]

\* variant of inRange: the per-endpoint overrides are not read
inRange_GlobalFlagOnly(value, valueRange) ==
    LET numValue == toNumeric(value)
        minValue == toNumeric(valueRange.Min)
        maxValue == toNumeric(valueRange.Max)
        minOK == IF valueRange.Min = Nil THEN TRUE
                 ELSE IF ~minValue.ok THEN FALSE
                 ELSE IF valueRange.Inclusive THEN ~NumLess(numValue, minValue)
                 ELSE NumLess(minValue, numValue)
        maxOK == IF valueRange.Max = Nil THEN TRUE
                 ELSE IF ~maxValue.ok THEN FALSE
                 ELSE IF valueRange.Inclusive THEN ~NumLess(maxValue, numValue)
                 ELSE NumLess(numValue, maxValue)
    IN  numValue.ok /\ minOK /\ maxOK

\* AdvancedMatcher.inRange
inRange(value, valueRange) ==
    LET numValue == toNumeric(value)
        minValue == toNumeric(valueRange.Min)
        maxValue == toNumeric(valueRange.Max)
        minInclusive == IF Len(valueRange.MinInclusive) > 0
                        THEN valueRange.MinInclusive[1] ELSE valueRange.Inclusive
        maxInclusive == IF Len(valueRange.MaxInclusive) > 0
                        THEN valueRange.MaxInclusive[1] ELSE valueRange.Inclusive
        minOK == IF valueRange.Min = Nil THEN TRUE
                 ELSE IF ~minValue.ok THEN FALSE
                 ELSE IF minInclusive THEN ~NumLess(numValue, minValue)
                 ELSE NumLess(minValue, numValue)
        maxOK == IF valueRange.Max = Nil THEN TRUE
                 ELSE IF ~maxValue.ok THEN FALSE
                 ELSE IF maxInclusive THEN ~NumLess(maxValue, numValue)
                 ELSE NumLess(numValue, maxValue)
    IN  numValue.ok /\ minOK /\ maxOK

\* AdvancedMatcher.oneOf
oneOf(value, values) ==
    \E i \in 1..Len(values) : advCompareValues(value, values[i], "equals")

\* a ValidationRule without range, condition, transform and temporal part,
\* and the records of its Condition, Transform and Temporal fields
ValidationRule(field, operator, value, pattern) ==
    [Field |-> field, Operator |-> operator, Value |-> value, Values |-> <<>>,
     Pattern |-> pattern, Range |-> <<>>, Condition |-> <<>>, Transform |-> <<>>,
     Temporal |-> <<>>, Severity |-> ""]
ConditionalRule(if, then, else, and, or, not) ==
    [If |-> if, Then |-> then, Else |-> else, And |-> and, Or |-> or, Not |-> not]
TransformRule(type, source, target, value) ==
    [Type |-> type, Source |-> source, Target |-> target, Value |-> value]
TemporalRule(windowSize, threshold, comparison) ==
    [WindowSize |-> windowSize, Threshold |-> threshold, Comparison |-> comparison]

\* AdvancedMatcher.validateBasicRule
validateBasicRule(rule, fieldValue) ==
    LET pattern == IF rule.Pattern = <<>> /\ rule.Value # Nil
                   THEN Sprint(rule.Value) ELSE rule.Pattern
        op == rule.Operator
        ok == IF op = "equals" THEN advCompareValues(fieldValue, rule.Value, "equals")
              ELSE IF op = "not_equals" THEN ~advCompareValues(fieldValue, rule.Value, "equals")
              ELSE IF op = "matches" THEN advMatchesPattern(fieldValue, pattern)
              ELSE IF op = "not_matches" THEN ~advMatchesPattern(fieldValue, pattern)
              ELSE IF op = "exists" THEN fieldValue # Nil
              ELSE IF op = "not_exists" THEN fieldValue = Nil
              ELSE IF op \in {"greater_than", "less_than", "greater_or_equal", "less_or_equal"}
                  THEN advCompareValues(fieldValue, rule.Value, op)
              ELSE IF op = "contains" THEN stringContains(fieldValue, rule.Value)
              ELSE IF op = "not_contains" THEN ~stringContains(fieldValue, rule.Value)
              ELSE IF op = "starts_with" THEN stringStartsWith(fieldValue, rule.Value)
              ELSE IF op = "ends_with" THEN stringEndsWith(fieldValue, rule.Value)
              ELSE IF op = "in_range" THEN inRange(fieldValue, rule.Range[1])
              ELSE IF op = "not_in_range" THEN ~inRange(fieldValue, rule.Range[1])
              ELSE IF op = "one_of" THEN oneOf(fieldValue, rule.Values)
              ELSE IF op = "not_one_of" THEN ~oneOf(fieldValue, rule.Values)
              ELSE FALSE
    IN  IF op \in {"in_range", "not_in_range"} /\ Len(rule.Range) = 0
            THEN Err("range not specified", "")
        ELSE IF op \notin {"equals", "not_equals", "matches", "not_matches", "exists",
                           "not_exists", "greater_than", "less_than", "greater_or_equal",
                           "less_or_equal", "contains", "not_contains", "starts_with",
                           "ends_with", "in_range", "not_in_range", "one_of", "not_one_of"}
            THEN Err("unsupported operator", "")
        ELSE IF ok THEN NoErr
        ELSE Err("field", op)

\* AdvancedMatcher.validateTransformRule; fieldValue is the value of the
\* rule's own field
validateTransformRule(transform, fieldValue, data) ==
    IF transform.Type = "add" THEN
        (IF fieldValue = Nil THEN Err("expected field to be added", "")
         ELSE IF transform.Value # Nil /\ ~advCompareValues(fieldValue, transform.Value, "equals")
             THEN Err("added field", "")
         ELSE NoErr)
    ELSE IF transform.Type = "remove" THEN
        (IF fieldValue # Nil THEN Err("expected field to be removed", "") ELSE NoErr)
    ELSE IF transform.Type = "modify" THEN
        (IF transform.Value # Nil /\ ~advCompareValues(fieldValue, transform.Value, "equals")
         THEN Err("modified field", "") ELSE NoErr)
    ELSE IF transform.Type = "rename" THEN
        (IF advExtractFieldValue(transform.Source, data) # Nil
             THEN Err("expected source field to be removed after rename", "")
         ELSE IF fieldValue = Nil
             THEN Err("expected target field to exist after rename", "")
         ELSE NoErr)
    ELSE Err("unsupported transformation type", "")

\* time.ParseDuration of a window size: a digit and "s" are that many
\* seconds; the other strings of the model do not parse
ParseDuration(s) ==
    IF Len(s) = 2 /\ s[1] \in Digits /\ s[2] = "s"
    THEN [ok |-> TRUE, d |-> ParseFloat(<<s[1]>>).w]
    ELSE [ok |-> FALSE, d |-> 0]

\* AdvancedMatcher.validateTemporalRule
validateTemporalRule(temporal, fieldValue, data) ==
    LET windowDuration == ParseDuration(temporal.WindowSize)
        now == clock
        windowStart == now - windowDuration.d
        timestamp == IF data.Time = 0 THEN now ELSE data.Time
        numericValue == toNumeric(fieldValue)
        thresholdValue == toNumeric(temporal.Threshold)
    IN  IF ~windowDuration.ok THEN Err("invalid window size", "")
        ELSE IF timestamp < windowStart THEN Err("timestamp is outside window", "")
        ELSE IF temporal.Threshold # Nil /\ temporal.Comparison # "" THEN
            (IF ~numericValue.ok
                 THEN Err("cannot convert field value to numeric for temporal validation", "")
             ELSE IF ~thresholdValue.ok THEN Err("cannot convert threshold to numeric", "")
             ELSE IF ~compareNumeric(numericValue, thresholdValue, temporal.Comparison)
                 THEN Err("temporal validation failed", "")
             ELSE NoErr)
        ELSE NoErr

RECURSIVE ValidateRule(_, _)
RECURSIVE validateConditionalRule(_, _)

\* AdvancedMatcher.validateConditionalRule
validateConditionalRule(condition, data) ==
    LET ifPassed == ValidateRule(condition.If[1], data) = NoErr
    IN  IF Len(condition.If) > 0 /\ ifPassed /\ Len(condition.Then) > 0
            THEN ValidateRule(condition.Then[1], data)
        ELSE IF Len(condition.If) > 0 /\ ~ifPassed /\ Len(condition.Else) > 0
            THEN ValidateRule(condition.Else[1], data)
        ELSE IF \E i \in 1..Len(condition.And) : ValidateRule(condition.And[i], data) # NoErr
            THEN Err("AND condition failed", "")
        ELSE IF Len(condition.Or) > 0 THEN
            (IF \E i \in 1..Len(condition.Or) : ValidateRule(condition.Or[i], data) = NoErr
             THEN NoErr ELSE Err("all OR conditions failed", ""))
        ELSE IF Len(condition.Not) > 0 /\ ValidateRule(condition.Not[1], data) = NoErr
            THEN Err("NOT condition should have failed", "")
        ELSE NoErr

\* AdvancedMatcher.ValidateRule
ValidateRule(rule, data) ==
    LET fieldValue == advExtractFieldValue(rule.Field, data)
    IN  IF Len(rule.Condition) > 0 THEN validateConditionalRule(rule.Condition[1], data)
        ELSE IF Len(rule.Transform) > 0
            THEN validateTransformRule(rule.Transform[1], fieldValue, data)
        ELSE IF Len(rule.Temporal) > 0
            THEN validateTemporalRule(rule.Temporal[1], fieldValue, data)
        ELSE validateBasicRule(rule, fieldValue)

---------------------------------------------------------------------------
(* Specification of the rule validation: one call of                       *)
(* AdvancedMatcher.ValidateRule on a rule and a bundle                     *)

\* the severities of a rule
Severities == {"error", "warning", "info"}

\* the path of a span attribute, from the parts of its key
AttrPath(key) == <<"span", "attributes">> \o key

CreditCard == <<"c", "r", "e", "d", "i", "t", "_", "c", "a", "r", "d">>

\* rules with an operator only
NameIsA == ValidationRule(<<"span", "name">>, "equals", <<"a">>, <<>>)
NameIsB == ValidationRule(<<"span", "name">>, "equals", <<"b">>, <<>>)
HasK1 == ValidationRule(AttrPath(<<"k1">>), "exists", Nil, <<>>)
HasK2 == ValidationRule(AttrPath(<<"k2">>), "exists", Nil, <<>>)
PaysByCard == ValidationRule(AttrPath(<<"payment", "method">>), "equals", CreditCard, <<>>)
CvvIsDigits == ValidationRule(AttrPath(<<"payment", "cvv">>), "matches", Nil, DigitsPattern)

BasicRules ==
    { NameIsA, NameIsB, HasK1, HasK2, PaysByCard, CvvIsDigits,
      ValidationRule(AttrPath(<<"k2">>), "not_exists", Nil, <<>>),
      ValidationRule(<<"span", "name">>, "matches", <<"^", "a">>, <<>>),
      ValidationRule(<<"span", "name">>, "greater_or_equal", <<"b">>, <<>>),
      ValidationRule(AttrPath(<<"k1">>), "contains", <<"a">>, <<>>),
      ValidationRule(<<"span", "service">>, "not_equals", <<"a">>, <<>>),
      ValidationRule(<<"span", "name">>, "in_range", Nil, <<>>),
      ValidationRule(<<"span", "name">>, "between", Nil, <<>>),
      [ValidationRule(<<"span", "name">>, "one_of", Nil, <<>>) EXCEPT !.Values = <<<<"b">>, <<"a">>>>] }

\* a rule with a condition; the operator of the rule itself is not read
Conditional(condition) ==
    [ValidationRule(AttrPath(<<"k1">>), "exists", Nil, <<>>) EXCEPT !.Condition = <<condition>>]

\* the rule of the documentation: a card payment needs a CVV of 3 or 4 digits
CvvRule ==
    [ValidationRule(AttrPath(<<"payment", "cvv">>), "exists", Nil, <<>>) EXCEPT
        !.Condition = <<ConditionalRule(<<PaysByCard>>, <<CvvIsDigits>>, <<>>, <<>>, <<>>, <<>>)>>]

\* rules with a condition: with and without if, then, else, and, or, not,
\* and with an if that is itself a condition
ConditionalRules ==
    {Conditional(ConditionalRule(if, then, else, and, or, not)) :
        if \in {<<>>, <<NameIsA>>, <<HasK1>>,
                <<Conditional(ConditionalRule(<<>>, <<>>, <<>>, <<>>, <<>>, <<HasK2>>))>>},
        then \in {<<>>, <<HasK2>>},
        else \in {<<>>, <<NameIsB>>},
        and \in {<<>>, <<HasK2>>},
        or \in {<<>>, <<NameIsB, HasK2>>},
        not \in {<<>>, <<HasK1>>}}
    \cup {CvvRule}

\* rules with a transform: every type and one that is none, on the rule's
\* own field and on another
TransformRules ==
    {[ValidationRule(AttrPath(<<field>>), "exists", Nil, <<>>) EXCEPT
         !.Transform = <<TransformRule(type, AttrPath(<<source>>), AttrPath(<<target>>), value)>>] :
        type \in {"add", "remove", "modify", "rename", "copy"},
        field \in {"k1", "k2"}, source \in {"k1", "k2"}, target \in {"k1", "k2"},
        value \in {Nil, <<"a">>}}

\* values of every type: the string "1", ints, floats at and off 1, bools
TypedValues ==
    {<<"1">>, <<"a">>, Int64(0), Int64(1), Float64(1, 0), Float64(1, 5), Float64(1, 20),
     Bool(TRUE), Bool(FALSE)}

\* equals and not_equals with a value of every type
CompareRules ==
    {ValidationRule(AttrPath(<<"k1">>), op, v, <<>>) :
        op \in {"equals", "not_equals"}, v \in TypedValues}

\* a pattern that does not compile, given as the pattern and as the value
BadPattern == <<"(">>

PatternRules ==
    {ValidationRule(<<"span", "name">>, op, pv[2], pv[1]) :
        op \in {"matches", "not_matches"},
        pv \in {<<BadPattern, Nil>>, <<<<>>, BadPattern>>, <<<<"a">>, Nil>>}}

\* in_range and not_in_range over 0 and 1: each endpoint present or not, a
\* min that is no number, every setting of the three inclusive flags
RangeRules ==
    {[ValidationRule(AttrPath(<<"k1">>), op, Nil, <<>>) EXCEPT
         !.Range = <<ValueRange(min, max, inclusive, minInclusive, maxInclusive)>>] :
        op \in {"in_range", "not_in_range"},
        min \in {Nil, Int64(0), <<"a">>}, max \in {Nil, Int64(1)},
        inclusive \in BOOLEAN,
        minInclusive \in {<<>>, <<TRUE>>, <<FALSE>>},
        maxInclusive \in {<<>>, <<TRUE>>, <<FALSE>>}}

\* temporal rules: windows of 1 and 2 seconds and one that does not parse,
\* with and without a threshold
TemporalRules ==
    {[ValidationRule(AttrPath(<<"k1">>), "exists", Nil, <<>>) EXCEPT
         !.Temporal = <<TemporalRule(windowSize, threshold, comparison)>>] :
        windowSize \in {<<"1", "s">>, <<"2", "s">>, <<"x">>},
        threshold \in {Nil, Int64(1), <<"a">>},
        comparison \in {"", "greater_or_equal"}}

\* the rules ValidateRule is called with
RulePool ==
    {[r EXCEPT !.Severity = s] :
        r \in BasicRules \cup ConditionalRules \cup TransformRules \cup CompareRules
                \cup PatternRules \cup RangeRules \cup TemporalRules,
        s \in Severities}

\* the latest time of a bundle and the times time.Now() returns
MaxTime == 5
Clocks == {3, 4}

\* the traces ValidateRule is called with: none, a resource without scopes,
\* and one span with attributes
RuleTraces ==
    {NewTraces, <<ResourceSpans(EmptyAttrs, <<>>)>>}
    \cup {<<ResourceSpans(res, << <<span>> >>)>> :
            res \in {EmptyAttrs, Attr1(<<"service", "name">>, <<"a">>)},
            span \in { Span(<<"a">>, Attr1(<<"k1">>, <<"a">>)),
                       Span(<<"b">>, Attr1(<<"k2">>, <<"b">>)),
                       Span(<<"a">>, Attr2(<<"k1">>, <<"b">>, <<"k2">>, <<"a">>)),
                       Span(<<"b">>, EmptyAttrs),
                       Span(<<"a">>, Attr1(<<"payment", "method">>, CreditCard)),
                       Span(<<"a">>, Attr2(<<"payment", "method">>, CreditCard,
                                           <<"payment", "cvv">>, <<"1", "2", "3">>)),
                       Span(<<"a">>, Attr1(<<"payment">>, CreditCard)) }}
    \cup {<<ResourceSpans(EmptyAttrs, << <<Span(<<"a">>, Attr1(<<"k1">>, v))>> >>)>> :
            v \in TypedValues \cup {Int64(2), Float64(0, 5)}}

\* an OpenTelemetryData value
OpenTelemetryData(traces, time) == [Traces |-> traces, Time |-> time]

\* the bundles ValidateRule is called with: every one of the traces without
\* a time, and one of them with every time
RuleBundles ==
    {OpenTelemetryData(traces, 0) : traces \in RuleTraces}
    \cup {OpenTelemetryData(
              <<ResourceSpans(EmptyAttrs, << <<Span(<<"a">>, Attr1(<<"k1">>, Int64(1)))>> >>)>>,
              time) : time \in 1..MaxTime}

\* a call of AdvancedMatcher.ValidateRule
ValidateRuleCall ==
    /\ ~rOutcome.called
    /\ rOutcome' = [called |-> TRUE, err |-> ValidateRule(rRule, rData)]
    /\ UNCHANGED <<rRule, rData, clock>>

RuleInit ==
    /\ rRule \in RulePool
    /\ rData \in RuleBundles
    /\ clock \in Clocks
    /\ rOutcome = [called |-> FALSE, err |-> NoErr]
    /\ pipelines = Unused /\ regOrder = Unused /\ selCall = Unused
    /\ vContract = Unused /\ vInput = Unused /\ vOutput = Unused /\ vResult = Unused
    /\ mode = Unused /\ collector = Unused /\ config = Unused /\ contracts = Unused
    /\ results = Unused /\ svc = Unused /\ calls = Unused
    /\ pBundle = Unused /\ pProcs = Unused /\ pOrders = Unused /\ pOut = Unused
    /\ pErrs = Unused
    /\ fileSystem = Unused /\ loader = Unused /\ loadCall = Unused

RuleNext == ValidateRuleCall /\ UNCHANGED <<selVars, valVars, harVars, procVars, loadVars>>

SpecRules == RuleInit /\ [][RuleNext]_vars

C18_IfSelectsThenOrElse ==
    (/\ rOutcome.called
     /\ Len(rRule.Condition) > 0
     /\ Len(rRule.Condition[1].If) > 0) =>
        LET condition == rRule.Condition[1]
            branch == IF ValidateRule(condition.If[1], rData) = NoErr
                      THEN condition.Then ELSE condition.Else
        IN  rOutcome.err = IF Len(branch) = 0 THEN NoErr ELSE ValidateRule(branch[1], rData)

\* the first span of the bundle is a card payment without a CVV
CardPaymentWithoutCvv ==
    /\ HasFirstSpan(rData.Traces)
    /\ ValueOf(rData.Traces[1].Scopes[1][1].Attrs, <<"payment", "method">>) = CreditCard
    /\ ValueOf(rData.Traces[1].Scopes[1][1].Attrs, <<"payment", "cvv">>) = Nil

\* C19: on a span with payment.method = "credit_card" and no payment.cvv,
\* the rule "if span.attributes.payment.method equals credit_card then
\* span.attributes.payment.cvv matches ^[0-9]{3,4}$" fails
C19_CvvRuleFailsWithoutCvv ==
    (/\ rOutcome.called
     /\ rRule.Condition = CvvRule.Condition
     /\ CardPaymentWithoutCvv) =>
        rOutcome.err # NoErr

\* C20: a transform rule passes only if the fields the transform names are
\* as the transformation leaves them: add, the target is non-null and equals
\* the value when one is given; remove, the source is null; modify, the
\* target equals the value; rename, the source is null and the target is not
C20_TransformChecksItsOwnFields ==
    (/\ rOutcome.called
     /\ Len(rRule.Condition) = 0
     /\ Len(rRule.Transform) > 0
     /\ rOutcome.err = NoErr) =>
        LET transform == rRule.Transform[1]
            target == advExtractFieldValue(transform.Target, rData)
            source == advExtractFieldValue(transform.Source, rData)
        IN  /\ transform.Type = "add" =>
                  (target # Nil /\ (transform.Value # Nil => target = transform.Value))
            /\ transform.Type = "remove" => source = Nil
            /\ transform.Type = "modify" => target = transform.Value
            /\ transform.Type = "rename" => (source = Nil /\ target # Nil)

\* the rule is evaluated by validateBasicRule
IsBasic(rule) ==
    Len(rule.Condition) = 0 /\ Len(rule.Transform) = 0 /\ Len(rule.Temporal) = 0

\* the rule is evaluated by validateTemporalRule
IsTemporal(rule) ==
    Len(rule.Condition) = 0 /\ Len(rule.Transform) = 0 /\ Len(rule.Temporal) > 0

\* C21: a temporal rule fails whenever the timestamp of the bundle lies
\* outside [now - window_size, now]: when it is earlier than the start of
\* the window and when it is later than now
C21_OutOfWindowFails ==
    (/\ rOutcome.called
     /\ IsTemporal(rRule)
     /\ ParseDuration(rRule.Temporal[1].WindowSize).ok
     /\ rData.Time # 0
     /\ \/ rData.Time < clock - ParseDuration(rRule.Temporal[1].WindowSize).d
        \/ rData.Time > clock) =>
        rOutcome.err # NoErr

\* the pattern a matches or not_matches rule is evaluated with
PatternOf(rule) ==
    IF rule.Pattern = <<>> /\ rule.Value # Nil THEN Sprint(rule.Value) ELSE rule.Pattern

\* C22: a matches or not_matches rule whose pattern is not a valid regular
\* expression fails, whatever the value of the field
C22_InvalidPatternFails ==
    (/\ rOutcome.called
     /\ IsBasic(rRule)
     /\ rRule.Operator \in {"matches", "not_matches"}
     /\ RegexpMatch(PatternOf(rRule), <<>>) = "invalid") =>
        rOutcome.err # NoErr

\* C23: equals holds, and not_equals fails, only for operands of one type
\* or for an int and a float; a string, a bool or nil is never equal to a
\* value of another type
C23_EqualsIsStrictByType ==
    (/\ rOutcome.called
     /\ IsBasic(rRule)
     /\ \/ rRule.Operator = "equals" /\ rOutcome.err = NoErr
        \/ rRule.Operator = "not_equals" /\ rOutcome.err # NoErr) =>
        LET a == TypeOf(advExtractFieldValue(rRule.Field, rData))
            b == TypeOf(rRule.Value)
        IN  a = b \/ {a, b} = {"int", "float"}

\* C24: an in_range rule with numeric value and endpoints passes exactly
\* when the value lies above the min and below the max, an absent endpoint
\* being unbounded and an endpoint itself being included when its override
\* is true or, without override, when the inclusive flag is true; so with
\* min 0, max 1 and inclusive, 0 and 1 pass, and with min_inclusive false
\* and max_inclusive true, 0 fails and 1 passes
C24_InRangeEndpoints ==
    (/\ rOutcome.called
     /\ IsBasic(rRule)
     /\ rRule.Operator = "in_range"
     /\ Len(rRule.Range) > 0
     /\ toNumeric(advExtractFieldValue(rRule.Field, rData)).ok
     /\ rRule.Range[1].Min = Nil \/ toNumeric(rRule.Range[1].Min).ok
     /\ rRule.Range[1].Max = Nil \/ toNumeric(rRule.Range[1].Max).ok) =>
        LET range == rRule.Range[1]
            v == toNumeric(advExtractFieldValue(rRule.Field, rData))
            included(override) == IF override = <<>> THEN range.Inclusive ELSE override[1]
            at(endpoint) == v.w = toNumeric(endpoint).w /\ v.e = toNumeric(endpoint).e
            aboveMin == \/ range.Min = Nil
                        \/ NumLess(toNumeric(range.Min), v)
                        \/ at(range.Min) /\ included(range.MinInclusive)
            belowMax == \/ range.Max = Nil
                        \/ NumLess(v, toNumeric(range.Max))
                        \/ at(range.Max) /\ included(range.MaxInclusive)
            zeroToOne == range.Min = Int64(0) /\ range.Max = Int64(1)
        IN  /\ (rOutcome.err = NoErr) <=> (aboveMin /\ belowMax)
            /\ (/\ zeroToOne /\ range.Inclusive
                /\ range.MinInclusive = <<>> /\ range.MaxInclusive = <<>>
                /\ at(Int64(0)) \/ at(Int64(1))) => rOutcome.err = NoErr
            /\ (/\ zeroToOne
                /\ range.MinInclusive = <<FALSE>> /\ range.MaxInclusive = <<TRUE>>) =>
                   /\ at(Int64(0)) => rOutcome.err # NoErr
                   /\ at(Int64(1)) => rOutcome.err = NoErr

\* an in_range rule over 0..1 whose overrides exclude the min and include the
\* max, against the inclusive flag, was evaluated on the value 0 and failed
C24_Witness ==
    /\ rOutcome.called
    /\ IsBasic(rRule)
    /\ rRule.Operator = "in_range"
    /\ Len(rRule.Range) > 0
    /\ rRule.Range[1] = ValueRange(Int64(0), Int64(1), TRUE, <<FALSE>>, <<TRUE>>)
    /\ advExtractFieldValue(rRule.Field, rData) = Int64(0)
    /\ rOutcome.err # NoErr

---------------------------------------------------------------------------
(* Loader: package contract (internal/contract/selector_test.go 257-358)   *)
(*                                                                         *)
(* The disk holds one directory, d, with four files.  What loadFile makes  *)
(* of a file is what the file holds: a file is unreadable (os.ReadFile     *)
(* fails), malformed (yaml.Unmarshal fails), incomplete (validateContract  *)
(* fails) or valid.  A contract is known by its FilePath, and an error by  *)
(* the path or file its message names and by the file that failed.         *)

\* the files of directory d, in the lexical order WalkDir and Glob use
DirEntries == <<"d/a.yaml", "d/b.yml", "d/c.txt", "d/e.YAML">>

FileKinds == {"valid", "malformed", "incomplete", "unreadable"}

\* strings.HasSuffix(strings.ToLower(path), ".yaml") or ".yml"
IsYamlPath(path) == path \in {"d/a.yaml", "d/b.yml", "d/e.YAML"}

\* strings.Contains(path, "*")
IsPattern(path) == path \in {"d/*.yaml", "d/*", "d/[*"}

\* filepath.Glob: the sorted matches, and whether the pattern is malformed
Glob(pattern) ==
    IF pattern = "d/*.yaml" THEN [matches |-> <<"d/a.yaml">>, err |-> FALSE]
    ELSE IF pattern = "d/*" THEN [matches |-> DirEntries, err |-> FALSE]
    ELSE [matches |-> <<>>, err |-> TRUE]

NoFile == ""

\* the result of a load step: the loader after it and the file whose
\* loading failed, NoFile when none did; failed tells a failure without file
Loaded(l) == [l |-> l, failed |-> FALSE, file |-> NoFile]
Failed(l, file) == [l |-> l, failed |-> TRUE, file |-> file]

\* NewLoader
NewLoader == [contracts |-> <<>>, errors |-> <<>>]

\* Loader.loadFile
loadFile(l, filePath) ==
    IF fileSystem[filePath] = "valid"
    THEN Loaded([l EXCEPT !.contracts = Append(@, filePath)])
    ELSE Failed(l, filePath)

\* Loader.loadGlob, from the i-th match on: a file that fails adds an error
\* and the loop goes on
RECURSIVE loadGlobFrom(_, _, _)
loadGlobFrom(l, matches, i) ==
    IF i > Len(matches) THEN Loaded(l)
    ELSE LET r == loadFile(l, matches[i])
         IN  IF r.failed
             THEN loadGlobFrom([r.l EXCEPT !.errors =
                                   Append(@, [at |-> matches[i], file |-> r.file])],
                               matches, i + 1)
             ELSE loadGlobFrom(r.l, matches, i + 1)

\* Loader.loadDirectory, from the i-th entry of the walk on: the callback
\* skips what is no YAML file and returns the error of loadFile, which ends
\* the walk
RECURSIVE loadDirectoryFrom(_, _, _)
loadDirectoryFrom(l, entries, i) ==
    IF i > Len(entries) THEN Loaded(l)
    ELSE IF ~IsYamlPath(entries[i]) THEN loadDirectoryFrom(l, entries, i + 1)
    ELSE LET r == loadFile(l, entries[i])
         IN  IF r.failed THEN r ELSE loadDirectoryFrom(r.l, entries, i + 1)

\* Loader.loadPath
loadPath(l, path) ==
    IF IsPattern(path) THEN
        (IF Glob(path).err THEN Failed(l, NoFile) ELSE loadGlobFrom(l, Glob(path).matches, 1))
    ELSE IF path = "d" THEN loadDirectoryFrom(l, DirEntries, 1)
    ELSE IF path \notin DOMAIN fileSystem THEN Failed(l, NoFile)
    ELSE loadFile(l, path)

\* Loader.LoadFromPaths, from the i-th path on
RECURSIVE LoadFromPathsFrom(_, _, _)
LoadFromPathsFrom(l, paths, i) ==
    IF i > Len(paths) THEN l
    ELSE LET r == loadPath(l, paths[i])
         IN  LoadFromPathsFrom(
                 IF r.failed
                 THEN [r.l EXCEPT !.errors = Append(@, [at |-> paths[i], file |-> r.file])]
                 ELSE r.l,
                 paths, i + 1)

---------------------------------------------------------------------------
(* Specification of the contract loading: one call of LoadFromPaths on a   *)
(* new loader                                                              *)

MaxPaths == 2

\* the paths LoadFromPaths is called with: files, the directory, patterns,
\* a pattern that is malformed and a file that does not exist
PathPool == {"d/a.yaml", "d/e.YAML", "d", "d/*.yaml", "d/*", "d/[*", "missing.yaml"}

LoadFromPaths(paths) ==
    /\ ~loadCall.called
    /\ loader' = LoadFromPathsFrom(loader, paths, 1)
    /\ loadCall' = [called |-> TRUE, paths |-> paths]
    /\ UNCHANGED fileSystem

LoadInit ==
    /\ fileSystem \in [Range(DirEntries) -> FileKinds]
    /\ loader = NewLoader
    /\ loadCall = [called |-> FALSE, paths |-> <<>>]
    /\ pipelines = Unused /\ regOrder = Unused /\ selCall = Unused
    /\ vContract = Unused /\ vInput = Unused /\ vOutput = Unused /\ vResult = Unused
    /\ mode = Unused /\ collector = Unused /\ config = Unused /\ contracts = Unused
    /\ results = Unused /\ svc = Unused /\ calls = Unused
    /\ pBundle = Unused /\ pProcs = Unused /\ pOrders = Unused /\ pOut = Unused
    /\ pErrs = Unused
    /\ rRule = Unused /\ rData = Unused /\ rOutcome = Unused /\ clock = Unused

LoadNext ==
    \E paths \in SeqsUpTo(PathPool, MaxPaths) :
        LoadFromPaths(paths) /\ UNCHANGED <<selVars, valVars, harVars, procVars, ruleVars>>

SpecLoad == LoadInit /\ [][LoadNext]_vars

\* the contract files a path reaches: the file itself, the YAML files of
\* the directory, the matches of the pattern
Reaches(path) ==
    IF IsPattern(path) THEN Range(Glob(path).matches)
    ELSE IF path = "d" THEN {f \in Range(DirEntries) : IsYamlPath(f)}
    ELSE IF path \in DOMAIN fileSystem THEN {path}
    ELSE {}

\* C25: after LoadFromPaths, every valid contract file that one of the paths
\* reaches is loaded, no other file is, and every file reached that is
\* invalid or unreadable has an error of its own
C25_EachFileLoadsOrFailsAlone ==
    loadCall.called =>
        LET reached == UNION {Reaches(loadCall.paths[i]) : i \in 1..Len(loadCall.paths)}
        IN  /\ Range(loader.contracts) = {f \in reached : fileSystem[f] = "valid"}
            /\ \A f \in reached :
                   fileSystem[f] # "valid" =>
                       \E i \in 1..Len(loader.errors) : loader.errors[i].file = f

===========================================================================
